---- MODULE Spec2Model ----
(***************************************************************************)
(* Model of the MQTT client engine of NetworkModule/mqtt.c: the binary     *)
(* codec, the send queue, the packet identifier generator,                 *)
(* the send and receive engines and the two stream reassemblers            *)
(* (mqtt_sync, HOME_ASSISTANT_SUPPORT and DOMOTICZ_SUPPORT builds).        *)
(*                                                                         *)
(* Addresses of the send buffer are byte offsets from mq.mem_start, so     *)
(* mem_start = 0 and mem_end = SendBufSize.  mq.mem holds the frame bytes  *)
(* of [mem_start, curr); mq.msgs holds the queue entries in registration   *)
(* order, msgs[i+1] being mqtt_mq_get(mq, i).  The header mqtt.h is not    *)
(* part of the sources at hand: its macros, sizes and error numbers are    *)
(* modelled from the design description and marked so in the model map.    *)
(***************************************************************************)
EXTENDS Integers, Sequences, FiniteSets, TLC

----------------------------------------------------------------------------
(* Bounds of the model *)

\* size of mqtt_sendbuf in the model (MQTT_SENDBUF_SIZE is larger)
SendBufSize == 50

\* how many values of the packet id generator a run may draw
MaxPids == 3

\* bytes of the scratch region (the MQTT partial buffer) the model keeps
PbufSize == 8

\* operations of the control loop a run carries out
MaxCalls == 6

\* of these, the calls of mqtt_sync that bring bytes of the inbound stream
MaxChunks == 3

----------------------------------------------------------------------------
(* Values of mqtt.h *)

MQTT_OK == 1
MQTT_ERROR_NULLPTR == -2
MQTT_ERROR_CONTROL_FORBIDDEN_TYPE == -3
MQTT_ERROR_CONTROL_INVALID_FLAGS == -4
MQTT_ERROR_CONNACK_FORBIDDEN_FLAGS == -5
MQTT_ERROR_CONNACK_FORBIDDEN_CODE == -6
MQTT_ERROR_MALFORMED_RESPONSE == -7
MQTT_ERROR_RESPONSE_INVALID_CONTROL_TYPE == -8
MQTT_ERROR_CONNECT_NOT_CALLED == -9
MQTT_ERROR_SEND_BUFFER_IS_FULL == -10
MQTT_ERROR_SOCKET_ERROR == -11
MQTT_ERROR_MALFORMED_REQUEST == -12
MQTT_ERROR_ACK_OF_UNKNOWN == -13
MQTT_ERROR_CONNECTION_REFUSED == -14
MQTT_ERROR_SUBSCRIBE_FAILED == -15
MQTT_ERROR_INVALID_REMAINING_LENGTH == -16
MQTT_ERROR_CONNECT_CLIENT_ID_REFUSED == -17

MQTT_CONTROL_CONNECT == 1
MQTT_CONTROL_CONNACK == 2
MQTT_CONTROL_PUBLISH == 3
MQTT_CONTROL_PUBACK == 4
MQTT_CONTROL_SUBSCRIBE == 8
MQTT_CONTROL_SUBACK == 9
MQTT_CONTROL_PINGREQ == 12
MQTT_CONTROL_PINGRESP == 13
MQTT_CONTROL_DISCONNECT == 14

MQTT_QUEUED_UNSENT == "UNSENT"
MQTT_QUEUED_AWAITING_ACK == "AWAITING_ACK"
MQTT_QUEUED_COMPLETE == "COMPLETE"

MQTT_CONNACK_ACCEPTED == 0
MQTT_CONNACK_REFUSED_IDENTIFIER_REJECTED == 2
MQTT_SUBACK_FAILURE == 128

MQTT_PUBLISH_DUP == 8
MQTT_PUBLISH_RETAIN == 1

MQTT_CONNECT_WILL_FLAG == 4
MQTT_CONNECT_WILL_RETAIN == 32
MQTT_CONNECT_USER_NAME == 128
MQTT_CONNECT_PASSWORD == 64
MQTT_PROTOCOL_LEVEL == 4

MQTT_START_COMPLETE == 20

\* sizeof(struct mqtt_queued_message): start, size, state, time_sent,
\* control_type, packet_id
QueuedMessageSize == 12

\* the absent string argument (a NULL pointer): no byte string equals it
NULL == <<-1>>

----------------------------------------------------------------------------
(* Bit operations of C on non-negative integers *)

RECURSIVE BitAnd(_, _)
BitAnd(a, b) ==
    IF a = 0 \/ b = 0 THEN 0
    ELSE (a % 2) * (b % 2) + 2 * BitAnd(a \div 2, b \div 2)

RECURSIVE BitXor(_, _)
BitXor(a, b) ==
    IF a = 0 THEN b
    ELSE IF b = 0 THEN a
    ELSE (((a % 2) + (b % 2)) % 2) + 2 * BitXor(a \div 2, b \div 2)

BitOr(a, b) == a + b - BitAnd(a, b)

RECURSIVE Pow2(_)
Pow2(n) == IF n = 0 THEN 1 ELSE 2 * Pow2(n - 1)

Min(a, b) == IF a < b THEN a ELSE b

----------------------------------------------------------------------------
(* FIXED HEADER *)

control_type_is_valid ==
    <<0, 1, 1, 1, 1, 1, 1, 1, 1, 1, 1, 1, 1, 1, 1, 0>>

required_flags ==
    <<0, 0, 0, 0, 0, 0, 2, 0, 2, 0, 2, 0, 0, 0, 0, 0>>

mask_required_flags ==
    <<0, 15, 15, 0, 15, 15, 15, 15, 15, 15, 15, 15, 15, 15, 15, 0>>

\* 0 when the header is legal, else the error code
mqtt_fixed_header_rule_violation(fixed_header) ==
    LET control_type == fixed_header.control_type
        control_flags == fixed_header.control_flags
    IN  IF control_type_is_valid[control_type + 1] # 1
        THEN MQTT_ERROR_CONTROL_FORBIDDEN_TYPE
        ELSE IF BitAnd(BitXor(control_flags, required_flags[control_type + 1]),
                       mask_required_flags[control_type + 1]) = 1
        THEN MQTT_ERROR_CONTROL_INVALID_FLAGS
        ELSE 0

\* the do-while of mqtt_unpack_fixed_header: buf is the scratch region (C
\* index i is buf[i + 1]), pos the index the C pointer stands at, bufsz the
\* bytes left from there
\* (x << lshift) as the += of the loop takes it.  int has 16 bits in this
\* build: a result above 32767 is undefined, and the build leaves its low 16
\* bits, which the conversion to the 32 bits of remaining_length extends
\* with the sign ("sign") or with zeros ("zero").  A value of 2^31 or more
\* is written as the value less 2^32, a negative number.
ShiftLeft(x, lshift, shift) ==
    LET exact == x * Pow2(lshift)
        low == exact % 65536
    IN  IF exact <= 32767 THEN exact
        ELSE IF shift = "sign" /\ low >= 32768 THEN low - 65536
        ELSE low

RECURSIVE UnpackLengthLoop(_, _, _, _, _, _)

\* the loop looking at the next byte before it tests that one is left
UnpackLengthLoop_reads_ahead(buf, bufsz, pos, lshift, remaining_length, shift) ==
    IF lshift = 28
    THEN [rv |-> MQTT_ERROR_INVALID_REMAINING_LENGTH, bufsz |-> bufsz,
          pos |-> pos, remaining_length |-> remaining_length]
    ELSE IF bufsz - 1 = 0 /\ (pos + 2 \notin DOMAIN buf \/ buf[pos + 2] >= 128)
    THEN [rv |-> 0, bufsz |-> 0, pos |-> pos + 1,
          remaining_length |-> remaining_length]
    ELSE LET byte == buf[pos + 2]
             rl == remaining_length + ShiftLeft(byte % 128, lshift, shift)
         IN  IF byte >= 128
             THEN UnpackLengthLoop(buf, bufsz - 1, pos + 1, lshift + 7, rl,
                                   shift)
             ELSE [rv |-> 1, bufsz |-> bufsz - 1, pos |-> pos + 1,
                   remaining_length |-> rl]

UnpackLengthLoop(buf, bufsz, pos, lshift, remaining_length, shift) ==
    IF lshift = 28
    THEN [rv |-> MQTT_ERROR_INVALID_REMAINING_LENGTH, bufsz |-> bufsz,
          pos |-> pos, remaining_length |-> remaining_length]
    ELSE IF bufsz - 1 = 0
    THEN [rv |-> 0, bufsz |-> 0, pos |-> pos + 1,
          remaining_length |-> remaining_length]
    ELSE LET byte == buf[pos + 2]
             rl == remaining_length + ShiftLeft(byte % 128, lshift, shift)
         IN  IF byte >= 128
             THEN UnpackLengthLoop(buf, bufsz - 1, pos + 1, lshift + 7, rl,
                                   shift)
             ELSE [rv |-> 1, bufsz |-> bufsz - 1, pos |-> pos + 1,
                   remaining_length |-> rl]

\* rv: bytes of the fixed header, 0 when the buffer holds no whole frame
\* yet, negative on error; set: whether control type and flags were parsed
mqtt_unpack_fixed_header_on(buf, bufsz, shift) ==
    IF bufsz = 0
    THEN [rv |-> 0, set |-> FALSE, control_type |-> 0, control_flags |-> 0,
          remaining_length |-> 0]
    ELSE LET control_type == buf[1] \div 16
             control_flags == buf[1] % 16
             l == UnpackLengthLoop(buf, bufsz, 0, 0, 0, shift)
             fh == [control_type |-> control_type,
                    control_flags |-> control_flags,
                    remaining_length |-> l.remaining_length]
             errcode == mqtt_fixed_header_rule_violation(fh)
             out(rv) == [rv |-> rv, set |-> TRUE,
                         control_type |-> control_type,
                         control_flags |-> control_flags,
                         remaining_length |-> l.remaining_length]
         IN  IF l.rv # 1 THEN out(l.rv)
             ELSE IF errcode # 0 THEN out(errcode)
             ELSE IF \/ l.remaining_length < 0
                     \/ l.bufsz - 1 < l.remaining_length
             THEN out(0)
             ELSE out(l.pos + 1)

\* the scratch region holds frames with one or two length bytes, for which
\* no shift leaves the 16 bits
mqtt_unpack_fixed_header(buf, bufsz) ==
    mqtt_unpack_fixed_header_on(buf, bufsz, "sign")

RECURSIVE PackLengthLoop(_, _, _)

\* the loop setting the continuation bit from 127 on
PackLengthLoop_from_127(bufsz, remaining_length, bytes) ==
    IF bufsz - 1 = 0
    THEN [rv |-> 0, bufsz |-> 0, bytes |-> bytes]
    ELSE LET byte == (remaining_length % 128)
                     + (IF remaining_length > 126 THEN 128 ELSE 0)
         IN  IF byte >= 128
             THEN PackLengthLoop(bufsz - 1, remaining_length \div 128,
                                 Append(bytes, byte))
             ELSE [rv |-> 1, bufsz |-> bufsz - 1, bytes |-> Append(bytes, byte)]

\* the do-while of mqtt_pack_fixed_header; bytes are the bytes written so far
PackLengthLoop(bufsz, remaining_length, bytes) ==
    IF bufsz - 1 = 0
    THEN [rv |-> 0, bufsz |-> 0, bytes |-> bytes]
    ELSE LET byte == (remaining_length % 128)
                     + (IF remaining_length > 127 THEN 128 ELSE 0)
         IN  IF byte >= 128
             THEN PackLengthLoop(bufsz - 1, remaining_length \div 128,
                                 Append(bytes, byte))
             ELSE [rv |-> 1, bufsz |-> bufsz - 1, bytes |-> Append(bytes, byte)]

\* rv: bytes of the header, 0 when header plus remaining length do not fit
\* in bufsz, negative on error; bytes: what has been written in the buffer
mqtt_pack_fixed_header(bufsz, fixed_header) ==
    LET errcode == mqtt_fixed_header_rule_violation(fixed_header)
        first == ((fixed_header.control_type * 16) % 256)
                 + (fixed_header.control_flags % 16)
        l == PackLengthLoop(bufsz, fixed_header.remaining_length, <<first>>)
    IN  IF errcode # 0 THEN [rv |-> errcode, bytes |-> <<>>]
        ELSE IF bufsz = 0 THEN [rv |-> 0, bytes |-> <<>>]
        ELSE IF l.rv = 0 THEN [rv |-> 0, bytes |-> l.bytes]
        ELSE IF l.bufsz - 1 < fixed_header.remaining_length
        THEN [rv |-> 0, bytes |-> l.bytes]
        ELSE [rv |-> Len(l.bytes), bytes |-> l.bytes]

----------------------------------------------------------------------------
(* Integers and strings on the wire *)

mqtt_pack_uint16(integer) == <<(integer \div 256) % 256, integer % 256>>

mqtt_unpack_uint16(buf, pos) == buf[pos + 1] * 256 + buf[pos + 2]

mqtt_pack_str(str) == mqtt_pack_uint16(Len(str)) \o str

----------------------------------------------------------------------------
(* Packing of the outbound frames.  Each returns rv (bytes of the frame, 0 *)
(* when it does not fit in bufsz, negative on error) and the frame bytes.  *)

mqtt_pack_connection_request(bufsz, client_id, will_topic, will_message, user_name, password, connect_flags0, keep_alive) ==
    LET flags1 == BitOr(BitOr(connect_flags0 - (connect_flags0 % 2),
                              MQTT_CONNECT_WILL_FLAG), MQTT_CONNECT_WILL_RETAIN)
        flags2 == IF user_name # NULL
                  THEN BitOr(flags1, MQTT_CONNECT_USER_NAME)
                  ELSE flags1 - BitAnd(flags1, MQTT_CONNECT_USER_NAME)
        connect_flags == IF password # NULL
                         THEN BitOr(flags2, MQTT_CONNECT_PASSWORD)
                         ELSE flags2 - BitAnd(flags2, MQTT_CONNECT_PASSWORD)
        remaining_length ==
            (10 + (Len(client_id) + 2) + (Len(will_topic) + 2)
                + 2 + Len(will_message)
                + (IF user_name # NULL THEN Len(user_name) + 2 ELSE 0)
                + (IF password # NULL THEN Len(password) + 2 ELSE 0)) % 65536
        fixed_header == [control_type |-> MQTT_CONTROL_CONNECT,
                         control_flags |-> 0,
                         remaining_length |-> remaining_length]
        h == mqtt_pack_fixed_header(bufsz, fixed_header)
        body == <<0, 4, 77, 81, 84, 84, MQTT_PROTOCOL_LEVEL, connect_flags>>
                \o mqtt_pack_uint16(keep_alive)
                \o mqtt_pack_str(client_id)
                \o mqtt_pack_str(will_topic)
                \o mqtt_pack_uint16(Len(will_message)) \o will_message
                \o (IF user_name # NULL THEN mqtt_pack_str(user_name) ELSE <<>>)
                \o (IF password # NULL THEN mqtt_pack_str(password) ELSE <<>>)
    IN  IF h.rv <= 0 THEN [rv |-> h.rv, bytes |-> <<>>]
        ELSE IF bufsz - h.rv < remaining_length THEN [rv |-> 0, bytes |-> <<>>]
        ELSE [rv |-> Len(h.bytes \o body), bytes |-> h.bytes \o body]

mqtt_pack_disconnect(bufsz) ==
    mqtt_pack_fixed_header(bufsz, [control_type |-> MQTT_CONTROL_DISCONNECT,
                                   control_flags |-> 0,
                                   remaining_length |-> 0])

mqtt_pack_ping_request(bufsz) ==
    mqtt_pack_fixed_header(bufsz, [control_type |-> MQTT_CONTROL_PINGREQ,
                                   control_flags |-> 0,
                                   remaining_length |-> 0])

\* the packet id is not written: only QoS 0 frames are built
\* the packing refused when the frame takes all of bufsz
mqtt_pack_publish_request_strict(bufsz, topic_name, packet_id, application_message, publish_flags0) ==
    LET remaining_length == Len(topic_name) + 2 + Len(application_message)
        publish_flags == publish_flags0 - BitAnd(publish_flags0, MQTT_PUBLISH_DUP)
        fixed_header == [control_type |-> MQTT_CONTROL_PUBLISH,
                         control_flags |-> publish_flags,
                         remaining_length |-> remaining_length]
        h == mqtt_pack_fixed_header(bufsz, fixed_header)
        body == mqtt_pack_str(topic_name) \o application_message
    IN  IF topic_name = NULL THEN [rv |-> MQTT_ERROR_NULLPTR, bytes |-> <<>>]
        ELSE IF h.rv <= 0 THEN [rv |-> h.rv, bytes |-> <<>>]
        ELSE IF bufsz - h.rv <= remaining_length THEN [rv |-> 0, bytes |-> <<>>]
        ELSE [rv |-> Len(h.bytes \o body), bytes |-> h.bytes \o body]

mqtt_pack_publish_request(bufsz, topic_name, packet_id, application_message, publish_flags0) ==
    LET remaining_length == Len(topic_name) + 2 + Len(application_message)
        publish_flags == publish_flags0 - BitAnd(publish_flags0, MQTT_PUBLISH_DUP)
        fixed_header == [control_type |-> MQTT_CONTROL_PUBLISH,
                         control_flags |-> publish_flags,
                         remaining_length |-> remaining_length]
        h == mqtt_pack_fixed_header(bufsz, fixed_header)
        body == mqtt_pack_str(topic_name) \o application_message
    IN  IF topic_name = NULL THEN [rv |-> MQTT_ERROR_NULLPTR, bytes |-> <<>>]
        ELSE IF h.rv <= 0 THEN [rv |-> h.rv, bytes |-> <<>>]
        ELSE IF bufsz - h.rv < remaining_length THEN [rv |-> 0, bytes |-> <<>>]
        ELSE [rv |-> Len(h.bytes \o body), bytes |-> h.bytes \o body]

mqtt_pack_subscribe_request(bufsz, packet_id, topic, max_qos_level) ==
    LET fixed_header == [control_type |-> MQTT_CONTROL_SUBSCRIBE,
                         control_flags |-> 2,
                         remaining_length |-> 2 + (Len(topic) + 2 + 1)]
        h == mqtt_pack_fixed_header(bufsz, fixed_header)
        body == mqtt_pack_uint16(packet_id) \o mqtt_pack_str(topic)
                \o <<max_qos_level % 256>>
    IN  IF h.rv <= 0 THEN [rv |-> h.rv, bytes |-> <<>>]
        ELSE IF bufsz - h.rv < fixed_header.remaining_length
        THEN [rv |-> 0, bytes |-> <<>>]
        ELSE [rv |-> Len(h.bytes \o body), bytes |-> h.bytes \o body]

----------------------------------------------------------------------------
(* Unpacking of the inbound frames.  buf is the scratch region, pos the C   *)
(* index of the first byte after the fixed header.                          *)

\* bytes buf[from .. from + n - 1] (C indices), as far as the region goes
Slice(buf, from, n) ==
    SubSeq(buf, from + 1, Min(from + n, Len(buf)))

mqtt_unpack_connack_response(fixed_header, buf, pos) ==
    IF fixed_header.remaining_length # 2
    THEN [rv |-> MQTT_ERROR_MALFORMED_RESPONSE, return_code |-> 0]
    ELSE IF BitAnd(buf[pos + 1], 254) # 0
    THEN [rv |-> MQTT_ERROR_CONNACK_FORBIDDEN_FLAGS, return_code |-> 0]
    ELSE IF buf[pos + 2] > 5
    THEN [rv |-> MQTT_ERROR_CONNACK_FORBIDDEN_CODE, return_code |-> 0]
    ELSE [rv |-> 2, return_code |-> buf[pos + 2]]

mqtt_unpack_publish_response(fixed_header, buf, pos) ==
    IF fixed_header.remaining_length < 4
    THEN [rv |-> MQTT_ERROR_MALFORMED_RESPONSE, topic_name |-> <<>>,
          application_message |-> <<>>, application_message_size |-> 0,
          retain_flag |-> 0, qos_level |-> 0, dup_flag |-> 0]
    ELSE LET topic_name_size == mqtt_unpack_uint16(buf, pos)
             application_message_size ==
                 (fixed_header.remaining_length - topic_name_size - 2) % 65536
         IN  [rv |-> 2 + topic_name_size + application_message_size,
              topic_name |-> Slice(buf, pos + 2, topic_name_size),
              application_message |->
                  Slice(buf, pos + 2 + topic_name_size, application_message_size),
              application_message_size |-> application_message_size,
              retain_flag |-> BitAnd(fixed_header.control_flags, MQTT_PUBLISH_RETAIN),
              qos_level |-> BitAnd(fixed_header.control_flags, 6) \div 2,
              dup_flag |-> BitAnd(fixed_header.control_flags, MQTT_PUBLISH_DUP) \div 8]

mqtt_unpack_suback_response(fixed_header, buf, pos) ==
    IF fixed_header.remaining_length < 3
    THEN [rv |-> MQTT_ERROR_MALFORMED_RESPONSE, packet_id |-> 0, return_code |-> 0]
    ELSE [rv |-> fixed_header.remaining_length,
          packet_id |-> mqtt_unpack_uint16(buf, pos),
          return_code |-> buf[pos + 3]]

\* the decoder taking a frame of any other type as whole, with nothing
\* decoded, and leaving the type to its caller
mqtt_unpack_response_lenient(buf, bufsz) ==
    LET fh == mqtt_unpack_fixed_header(buf, bufsz)
    IN  [fixed_header |-> fh, connack |-> [return_code |-> 0],
         publish |-> [topic_name |-> <<>>, application_message |-> <<>>],
         suback |-> [packet_id |-> 0, return_code |-> 0],
         rv |-> IF fh.rv <= 0 THEN fh.rv ELSE fh.rv + fh.remaining_length]

\* rv: bytes of the whole frame, 0 when the buffer holds no whole frame yet,
\* negative on error; the decoded fields of the frame's type are set when rv > 0
mqtt_unpack_response(buf, bufsz) ==
    LET fh == mqtt_unpack_fixed_header(buf, bufsz)
        none == [fixed_header |-> fh, connack |-> [return_code |-> 0],
                 publish |-> [topic_name |-> <<>>, application_message |-> <<>>],
                 suback |-> [packet_id |-> 0, return_code |-> 0]]
        total(rv) == IF rv < 0 THEN rv ELSE fh.rv + rv
    IN  IF fh.rv <= 0 THEN [none EXCEPT !.fixed_header = fh] @@ [rv |-> fh.rv]
        ELSE IF fh.control_type = MQTT_CONTROL_CONNACK
        THEN LET d == mqtt_unpack_connack_response(fh, buf, fh.rv)
             IN  [none EXCEPT !.connack = d] @@ [rv |-> total(d.rv)]
        ELSE IF fh.control_type = MQTT_CONTROL_PUBLISH
        THEN LET d == mqtt_unpack_publish_response(fh, buf, fh.rv)
             IN  [none EXCEPT !.publish = d] @@ [rv |-> total(d.rv)]
        ELSE IF fh.control_type = MQTT_CONTROL_SUBACK
        THEN LET d == mqtt_unpack_suback_response(fh, buf, fh.rv)
             IN  [none EXCEPT !.suback = d] @@ [rv |-> total(d.rv)]
        ELSE IF fh.control_type = MQTT_CONTROL_PINGRESP
        THEN none @@ [rv |-> fh.rv]
        ELSE none @@ [rv |-> MQTT_ERROR_RESPONSE_INVALID_CONTROL_TYPE]

----------------------------------------------------------------------------
(* MESSAGE QUEUE *)

\* the pointer argument of mqtt_mq_find that is NULL
NoPacketId == -1

mem_end == SendBufSize

\* free bytes for a frame: what lies between curr and queue_tail, less the
\* queue entry that registering the frame will take
mqtt_mq_currsz(mq) ==
    IF mq.curr >= mq.queue_tail - QueuedMessageSize THEN 0
    ELSE mq.queue_tail - mq.curr - QueuedMessageSize

mqtt_mq_init ==
    LET mq == [curr |-> 0, queue_tail |-> mem_end, curr_sz |-> 0,
               msgs |-> <<>>, mem |-> <<>>]
    IN  [mq EXCEPT !.curr_sz = mqtt_mq_currsz(mq)]

\* bytes: what the caller packed at curr, of which the first nbytes become
\* the frame of the entry (mem holds the bytes below curr); stale: the
\* packet_id the memory of the new entry held before (control_type and
\* packet_id are not set here: control_type is set by every caller)
mqtt_mq_register(mq, nbytes, bytes, stale) ==
    LET msg == [start |-> mq.curr, size |-> nbytes,
                state |-> MQTT_QUEUED_UNSENT,
                control_type |-> 0,
                packet_id |-> stale,
                time_sent |-> 0]
        mq1 == [mq EXCEPT !.queue_tail = mq.queue_tail - QueuedMessageSize,
                          !.msgs = Append(mq.msgs, msg),
                          !.curr = mq.curr + nbytes,
                          !.mem = mq.mem \o SubSeq(bytes, 1, nbytes)]
    IN  [mq1 EXCEPT !.curr_sz = mqtt_mq_currsz(mq1)]

\* the scan with the test of the state inverted
RECURSIVE NewHead_inverted(_, _)
NewHead_inverted(msgs, i) ==
    IF i > Len(msgs) THEN i
    ELSE IF msgs[i].state = MQTT_QUEUED_COMPLETE THEN i
    ELSE NewHead_inverted(msgs, i + 1)

\* the search going on past an entry that is not COMPLETE to the entry after
\* the last COMPLETE one
RECURSIVE NewHead_past_pending(_, _)
NewHead_past_pending(msgs, i) ==
    IF i > Len(msgs) THEN i
    ELSE IF \A j \in i..Len(msgs) : msgs[j].state # MQTT_QUEUED_COMPLETE
    THEN i
    ELSE NewHead_past_pending(msgs, i + 1)

\* index in msgs of the first entry, from mqtt_mq_get(mq, 0) on, that is not
\* COMPLETE; Len(msgs) + 1 when there is none
RECURSIVE NewHead(_, _)
NewHead(msgs, i) ==
    IF i > Len(msgs) THEN i
    ELSE IF msgs[i].state # MQTT_QUEUED_COMPLETE THEN i
    ELSE NewHead(msgs, i + 1)

\* mqtt_mq_clean without the branch for a queue that is COMPLETE throughout
mqtt_mq_clean_no_reset(mq) ==
    IF NewHead(mq.msgs, 1) > Len(mq.msgs)
    THEN [mq EXCEPT !.msgs = <<>>, !.queue_tail = mem_end]
    ELSE mq

mqtt_mq_clean(mq) ==
    LET new_head == NewHead(mq.msgs, 1)
    IN  IF new_head > Len(mq.msgs)
        THEN LET mq1 == [mq EXCEPT !.curr = 0, !.queue_tail = mem_end,
                                   !.msgs = <<>>, !.mem = <<>>]
             IN  [mq1 EXCEPT !.curr_sz = mqtt_mq_currsz(mq1)]
        ELSE IF new_head = 1 THEN mq
        ELSE LET n == mq.curr - mq.msgs[new_head].start
                 removing == mq.msgs[new_head].start
                 new_tail_idx == Len(mq.msgs) - new_head
                 kept == SubSeq(mq.msgs, new_head, Len(mq.msgs))
                 mq1 == [mq EXCEPT
                           !.mem = SubSeq(mq.mem, removing + 1, removing + n),
                           !.curr = n,
                           !.queue_tail =
                               mem_end - (new_tail_idx + 1) * QueuedMessageSize,
                           !.msgs = [i \in 1..(new_tail_idx + 1) |->
                                       [kept[i] EXCEPT !.start = @ - removing]]]
             IN  [mq1 EXCEPT !.curr_sz = mqtt_mq_currsz(mq1)]

\* index in msgs of the entry found, 0 for NULL
RECURSIVE MqFindFrom(_, _, _, _)
MqFindFrom(msgs, i, control_type, packet_id) ==
    IF i > Len(msgs) THEN 0
    ELSE IF /\ msgs[i].control_type = control_type
            /\ \/ (packet_id = NoPacketId /\ msgs[i].state # MQTT_QUEUED_COMPLETE)
               \/ (packet_id # NoPacketId /\ packet_id = msgs[i].packet_id)
    THEN i
    ELSE MqFindFrom(msgs, i + 1, control_type, packet_id)

\* the search taking the first entry that is not COMPLETE, of any type
mqtt_mq_find_any_type(mq, control_type, packet_id) ==
    MqFindFrom(mq.msgs, 1,
               IF mq.msgs = <<>> THEN control_type
               ELSE mq.msgs[1].control_type, packet_id)

\* the search that looks at the type alone
mqtt_mq_find_any_id(mq, control_type, packet_id) ==
    MqFindFrom(mq.msgs, 1, control_type, NoPacketId)

mqtt_mq_find(mq, control_type, packet_id) ==
    MqFindFrom(mq.msgs, 1, control_type, packet_id)

\* the frame bytes of entry i
FrameOf(mq, i) ==
    SubSeq(mq.mem, mq.msgs[i].start + 1, mq.msgs[i].start + mq.msgs[i].size)

----------------------------------------------------------------------------
(* Packet identifier generator *)

\* one step of the shift register
LfsrStep(x) ==
    IF x % 2 = 1 THEN BitXor(x \div 2, 46080) ELSE x \div 2

\* the generator without the scan of the queue
NextPidLoop_no_scan(msgs, lfsr) == LfsrStep(lfsr)

RECURSIVE NextPidLoop(_, _)
NextPidLoop(msgs, lfsr) ==
    LET next == LfsrStep(lfsr)
    IN  IF \E i \in 1..Len(msgs) : msgs[i].packet_id = next
        THEN NextPidLoop(msgs, next)
        ELSE next

\* the client with pid_lfsr advanced; the value returned is its pid_lfsr
mqtt_next_pid(client) ==
    [client EXCEPT !.pid_lfsr =
        NextPidLoop(client.mq.msgs, IF client.pid_lfsr = 0 THEN 163 ELSE client.pid_lfsr)]

----------------------------------------------------------------------------
(* The client: every operation returns the client after the call and the   *)
(* value returned, rv.                                                      *)

mqtt_init ==
    [mq |-> mqtt_mq_init,
     error |-> MQTT_ERROR_CONNECT_NOT_CALLED,
     response_timeout |-> 30,
     number_of_timeouts |-> 0,
     pid_lfsr |-> 0,
     send_offset |-> 0,
     keep_alive |-> 0,
     time_of_last_send |-> 0]

\* the tail of every enqueueing operation: p is what the pack function
\* returned; the entry is registered unless p.rv is negative, and then its
\* control_type is set, and its packet_id unless that is NoPacketId
Enqueue(client, p, control_type, packet_id, stale) ==
    IF p.rv < 0
    THEN [client |-> [client EXCEPT !.error = p.rv], rv |-> p.rv]
    ELSE LET mq == mqtt_mq_register(client.mq, p.rv, p.bytes, stale)
             n == Len(mq.msgs)
             msg == [mq.msgs[n] EXCEPT
                       !.control_type = control_type,
                       !.packet_id = IF packet_id = NoPacketId THEN @
                                     ELSE packet_id]
         IN  [client |-> [client EXCEPT !.mq = [mq EXCEPT !.msgs[n] = msg]],
              rv |-> MQTT_OK]

\* mqtt_connect clearing every stored error
mqtt_connect_clearing(client, client_id, will_topic, will_message, user_name, password, connect_flags, keep_alive, stale) ==
    LET c1 == [client EXCEPT !.keep_alive = keep_alive,
                             !.error = IF @ < 0 THEN MQTT_OK ELSE @]
        c2 == [c1 EXCEPT !.mq = mqtt_mq_clean(c1.mq)]
        p == mqtt_pack_connection_request(c2.mq.curr_sz, client_id, will_topic,
                 will_message, user_name, password, connect_flags, keep_alive)
    IN  Enqueue(c2, p, MQTT_CONTROL_CONNECT, NoPacketId, stale)

\* stale: the packet_id the memory of the new entry held before
mqtt_connect(client, client_id, will_topic, will_message, user_name, password, connect_flags, keep_alive, stale) ==
    LET c1 == [client EXCEPT !.keep_alive = keep_alive,
                             !.error = IF @ = MQTT_ERROR_CONNECT_NOT_CALLED
                                       THEN MQTT_OK ELSE @]
        c2 == [c1 EXCEPT !.mq = mqtt_mq_clean(c1.mq)]
        p == mqtt_pack_connection_request(c2.mq.curr_sz, client_id, will_topic,
                 will_message, user_name, password, connect_flags, keep_alive)
    IN  IF c1.error < 0 THEN [client |-> c1, rv |-> c1.error]
        ELSE Enqueue(c2, p, MQTT_CONTROL_CONNECT, NoPacketId, stale)

\* mqtt_publish without the test of client->error
mqtt_publish_unchecked(client, topic_name, application_message, publish_flags, stale) ==
    LET c1 == mqtt_next_pid(client)
        packet_id == c1.pid_lfsr
        c2 == [c1 EXCEPT !.mq = mqtt_mq_clean(c1.mq)]
        p == mqtt_pack_publish_request(c2.mq.curr_sz, topic_name, packet_id,
                 application_message, publish_flags)
    IN  Enqueue(c2, p, MQTT_CONTROL_PUBLISH, packet_id, stale)

mqtt_publish(client, topic_name, application_message, publish_flags, stale) ==
    LET c1 == mqtt_next_pid(client)
        packet_id == c1.pid_lfsr
        c2 == [c1 EXCEPT !.mq = mqtt_mq_clean(c1.mq)]
        p == mqtt_pack_publish_request(c2.mq.curr_sz, topic_name, packet_id,
                 application_message, publish_flags)
    IN  IF c1.error < 0 THEN [client |-> c1, rv |-> c1.error]
        ELSE Enqueue(c2, p, MQTT_CONTROL_PUBLISH, packet_id, stale)

mqtt_subscribe(client, topic_name, max_qos_level, stale) ==
    LET c1 == mqtt_next_pid(client)
        packet_id == c1.pid_lfsr
        c2 == [c1 EXCEPT !.mq = mqtt_mq_clean(c1.mq)]
        p == mqtt_pack_subscribe_request(c2.mq.curr_sz, packet_id, topic_name,
                 max_qos_level)
    IN  IF c1.error < 0 THEN [client |-> c1, rv |-> c1.error]
        ELSE Enqueue(c2, p, MQTT_CONTROL_SUBSCRIBE, packet_id, stale)

mqtt_ping(client, stale) ==
    LET c2 == [client EXCEPT !.mq = mqtt_mq_clean(client.mq)]
        p == mqtt_pack_ping_request(c2.mq.curr_sz)
    IN  IF client.error < 0 THEN [client |-> client, rv |-> client.error]
        ELSE Enqueue(c2, p, MQTT_CONTROL_PINGREQ, NoPacketId, stale)

mqtt_disconnect(client, stale) ==
    LET c2 == [client EXCEPT !.mq = mqtt_mq_clean(client.mq)]
        p == mqtt_pack_disconnect(c2.mq.curr_sz)
    IN  IF client.error < 0 THEN [client |-> client, rv |-> client.error]
        ELSE Enqueue(c2, p, MQTT_CONTROL_DISCONNECT, NoPacketId, stale)

----------------------------------------------------------------------------
(* The send engine.  w is the state of the whole program: the client, the  *)
(* globals of mqtt.c and main.c, the scratch region, and what the call     *)
(* handed to the transport (sent), to the callback (published) and to      *)
(* mqtt_recv (recv_log).  Every operation sets w.rv, the value it returns. *)

\* the transport: accept is the number of bytes it takes in one call, or a
\* negative error
mqtt_pal_sendall(accept, len) ==
    IF accept < 0 THEN accept ELSE Min(accept, len)

RECURSIVE SendScan(_, _, _, _)

\* the search taking an entry in AWAITING_ACK whatever the time
SendScan_any_awaiting(msgs, i, now, response_timeout) ==
    IF i > Len(msgs) THEN 0
    ELSE IF msgs[i].state \in {MQTT_QUEUED_UNSENT, MQTT_QUEUED_AWAITING_ACK}
    THEN i
    ELSE SendScan(msgs, i + 1, now, response_timeout)

\* the search going on to a later entry that is UNSENT when there is one
SendScan_latest_unsent(msgs, i, now, response_timeout) ==
    IF i > Len(msgs) THEN 0
    ELSE IF \E j \in (i + 1)..Len(msgs) : msgs[j].state = MQTT_QUEUED_UNSENT
    THEN SendScan(msgs, i + 1, now, response_timeout)
    ELSE IF \/ msgs[i].state = MQTT_QUEUED_UNSENT
            \/ /\ msgs[i].state = MQTT_QUEUED_AWAITING_ACK
               /\ now > msgs[i].time_sent + response_timeout
    THEN i
    ELSE SendScan(msgs, i + 1, now, response_timeout)

\* index of the first entry the loop of mqtt_send sends, 0 when there is none
SendScan(msgs, i, now, response_timeout) ==
    IF i > Len(msgs) THEN 0
    ELSE IF \/ msgs[i].state = MQTT_QUEUED_UNSENT
            \/ /\ msgs[i].state = MQTT_QUEUED_AWAITING_ACK
               /\ now > msgs[i].time_sent + response_timeout
    THEN i
    ELSE SendScan(msgs, i + 1, now, response_timeout)

\* the switch leaving a PINGREQ as it is
StateAfterSend_ping_unsent(control_type) ==
    IF control_type \in {MQTT_CONTROL_DISCONNECT, MQTT_CONTROL_PUBLISH}
    THEN MQTT_QUEUED_COMPLETE
    ELSE IF control_type \in {MQTT_CONTROL_CONNECT, MQTT_CONTROL_SUBSCRIBE}
    THEN MQTT_QUEUED_AWAITING_ACK
    ELSE IF control_type = MQTT_CONTROL_PINGREQ
    THEN MQTT_QUEUED_UNSENT
    ELSE ""

\* the switch with CONNECT among the types that need no acknowledgement
StateAfterSend_connect_complete(control_type) ==
    IF control_type \in {MQTT_CONTROL_DISCONNECT, MQTT_CONTROL_PUBLISH,
                         MQTT_CONTROL_CONNECT}
    THEN MQTT_QUEUED_COMPLETE
    ELSE IF control_type \in {MQTT_CONTROL_SUBSCRIBE, MQTT_CONTROL_PINGREQ}
    THEN MQTT_QUEUED_AWAITING_ACK
    ELSE ""

\* the switch with PUBLISH among the types that await an acknowledgement
StateAfterSend_publish_awaiting(control_type) ==
    IF control_type \in {MQTT_CONTROL_DISCONNECT}
    THEN MQTT_QUEUED_COMPLETE
    ELSE IF control_type \in {MQTT_CONTROL_CONNECT, MQTT_CONTROL_SUBSCRIBE,
                              MQTT_CONTROL_PINGREQ, MQTT_CONTROL_PUBLISH}
    THEN MQTT_QUEUED_AWAITING_ACK
    ELSE ""

\* the state a fully sent entry is put in; "" for the default branch
StateAfterSend(control_type) ==
    IF control_type \in {MQTT_CONTROL_DISCONNECT, MQTT_CONTROL_PUBLISH}
    THEN MQTT_QUEUED_COMPLETE
    ELSE IF control_type \in {MQTT_CONTROL_CONNECT, MQTT_CONTROL_SUBSCRIBE,
                              MQTT_CONTROL_PINGREQ}
    THEN MQTT_QUEUED_AWAITING_ACK
    ELSE ""

\* the keep-alive check counting the seconds from 0, not from the last send
KeepAlive_since_start(w, stale) ==
    LET client == w.client
        keep_alive_timeout == ((client.keep_alive * 3) % 65536) \div 4
        r == mqtt_ping(client, stale)
    IN  IF w.second_counter > keep_alive_timeout
           /\ w.mqtt_start = MQTT_START_COMPLETE
        THEN IF r.rv # MQTT_OK
             THEN [w EXCEPT !.client = [r.client EXCEPT !.error = r.rv],
                            !.rv = r.rv]
             ELSE [w EXCEPT !.client = r.client, !.rv = MQTT_OK]
        ELSE [w EXCEPT !.rv = MQTT_OK]

\* the keep-alive check that ends mqtt_send
KeepAlive(w, stale) ==
    LET client == w.client
        keep_alive_timeout ==
            client.time_of_last_send + (((client.keep_alive * 3) % 65536) \div 4)
        r == mqtt_ping(client, stale)
    IN  IF w.second_counter > keep_alive_timeout
           /\ w.mqtt_start = MQTT_START_COMPLETE
        THEN IF r.rv # MQTT_OK
             THEN [w EXCEPT !.client = [r.client EXCEPT !.error = r.rv],
                            !.rv = r.rv]
             ELSE [w EXCEPT !.client = r.client, !.rv = MQTT_OK]
        ELSE [w EXCEPT !.rv = MQTT_OK]

\* the error returned and not stored
Fail_unrecorded(w, error) == [w EXCEPT !.rv = error]

\* client->error is set to the error, which is returned
Fail(w, error) ==
    [w EXCEPT !.client.error = error, !.rv = error]

RECURSIVE SendLoop(_, _, _, _)

\* the loop going on to the entries after entry i once entry i is sent
Sent_no_break(w, i, accept, stale) == SendLoop(w, i + 1, accept, stale)

\* entry i is sent whole: the break that ends the loop, and the keep-alive
\* check after the loop
Sent(w, i, accept, stale) == KeepAlive(w, stale)

\* the loop of mqtt_send over the entries from entry first on
SendLoop(w, first, accept, stale) ==
    LET client == w.client
        i == SendScan(client.mq.msgs, first, w.second_counter, client.response_timeout)
    IN  IF i = 0 THEN KeepAlive(w, stale)
        ELSE
        LET msg == client.mq.msgs[i]
            c1 == IF msg.state = MQTT_QUEUED_AWAITING_ACK
                  THEN [client EXCEPT !.number_of_timeouts = @ + 1,
                                      !.send_offset = 0]
                  ELSE client
            tmp == mqtt_pal_sendall(accept, msg.size - c1.send_offset)
            w1 == [w EXCEPT !.sent = Append(@,
                      [entry |-> i, control_type |-> msg.control_type,
                       offset |-> c1.send_offset, tmp |-> tmp,
                       frame |-> FrameOf(client.mq, i)])]
            c2 == [c1 EXCEPT !.send_offset = @ + tmp]
            state == StateAfterSend(msg.control_type)
            c3 == [c1 EXCEPT !.send_offset = 0,
                             !.time_of_last_send = w.second_counter,
                             !.mq.msgs[i].time_sent = w.second_counter]
        IN  IF tmp < 0
            THEN Fail([w1 EXCEPT !.client = c1], tmp)
            ELSE IF c2.send_offset < msg.size
            THEN KeepAlive([w1 EXCEPT !.client = c2], stale)
            ELSE IF state = ""
            THEN [w1 EXCEPT
                    !.client = [c3 EXCEPT !.error = MQTT_ERROR_MALFORMED_REQUEST],
                    !.rv = MQTT_ERROR_MALFORMED_REQUEST]
            ELSE Sent([w1 EXCEPT
                         !.client = [c3 EXCEPT !.mq.msgs[i].state = state]],
                      i, accept, stale)

\* mqtt_send without the test of client->error that it begins with
mqtt_send_retrying(w, accept, stale) == SendLoop(w, 1, accept, stale)

mqtt_send(w, accept, stale) ==
    IF w.client.error < 0 /\ w.client.error # MQTT_ERROR_SEND_BUFFER_IS_FULL
    THEN [w EXCEPT !.rv = w.client.error]
    ELSE SendLoop(w, 1, accept, stale)

----------------------------------------------------------------------------
(* The receive engine.  u holds what the uninitialised fields of the local *)
(* response happen to hold: they are read when mqtt_unpack_response         *)
(* returned 0 without decoding.                                             *)

\* the entry left in the state it has
Release_none(w, i) == w

\* marks entry i COMPLETE
Release(w, i) ==
    [w EXCEPT !.client.mq.msgs[i].state = MQTT_QUEUED_COMPLETE]

mqtt_recv(w0, u) ==
    LET len == w0.mqtt_partial_buffer_length
        \* the switch on the control type of the response unpacked
        Switch(w, response) ==
            LET consumed == response.rv
                control_type == IF response.fixed_header.set
                                THEN response.fixed_header.control_type
                                ELSE u.control_type
                connack_code == IF consumed > 0
                                THEN response.connack.return_code
                                ELSE u.return_code
                suback_id == IF consumed > 0 THEN response.suback.packet_id
                             ELSE u.packet_id
                suback_code == IF consumed > 0
                               THEN response.suback.return_code
                               ELSE u.return_code
                ok(x) == [x EXCEPT !.rv = MQTT_OK]
                \* entry i is released, then the return code decides
                Connack(w1, i) ==
                    IF i = 0 THEN Fail(w1, MQTT_ERROR_ACK_OF_UNKNOWN)
                    ELSE IF connack_code = MQTT_CONNACK_ACCEPTED
                    THEN ok(Release(w1, i))
                    ELSE IF connack_code
                            = MQTT_CONNACK_REFUSED_IDENTIFIER_REJECTED
                    THEN Fail(Release(w1, i),
                              MQTT_ERROR_CONNECT_CLIENT_ID_REFUSED)
                    ELSE Fail(Release(w1, i), MQTT_ERROR_CONNECTION_REFUSED)
                Suback(w1, i) ==
                    IF i = 0 THEN Fail(w1, MQTT_ERROR_ACK_OF_UNKNOWN)
                    ELSE IF suback_code = MQTT_SUBACK_FAILURE
                    THEN Fail(Release(w1, i), MQTT_ERROR_SUBSCRIBE_FAILED)
                    ELSE ok(Release(w1, i))
                Pingresp(i) ==
                    IF i = 0 THEN Fail(w, MQTT_ERROR_ACK_OF_UNKNOWN)
                    ELSE ok(Release(w, i))
            IN  IF consumed < 0 THEN Fail(w, consumed)
                ELSE IF control_type = MQTT_CONTROL_CONNACK
                THEN Connack([w EXCEPT !.connack_received = 1],
                             mqtt_mq_find(w.client.mq, MQTT_CONTROL_CONNECT,
                                          NoPacketId))
                ELSE IF control_type = MQTT_CONTROL_PUBLISH
                THEN ok([w EXCEPT !.published = Append(@,
                            [decoded |-> consumed > 0,
                             topic_name |-> response.publish.topic_name,
                             application_message |->
                                 response.publish.application_message,
                             idx_string |-> w.idx_string,
                             nvalue_string |-> w.nvalue_string])])
                ELSE IF control_type = MQTT_CONTROL_SUBACK
                THEN Suback([w EXCEPT !.suback_received = 1],
                            mqtt_mq_find(w.client.mq, MQTT_CONTROL_SUBSCRIBE,
                                         suback_id))
                ELSE IF control_type = MQTT_CONTROL_PINGRESP
                THEN Pingresp(mqtt_mq_find(w.client.mq, MQTT_CONTROL_PINGREQ,
                                           NoPacketId))
                ELSE Fail(w, MQTT_ERROR_MALFORMED_RESPONSE)
    IN  Switch([w0 EXCEPT !.recv_log = Append(@,
                   [buf |-> SubSeq(w0.pbuf, 1, Min(len, Len(w0.pbuf))),
                    len |-> len,
                    idx_string |-> w0.idx_string,
                    nvalue_string |-> w0.nvalue_string])],
               mqtt_unpack_response(w0.pbuf, len))

----------------------------------------------------------------------------
(* The stream reassemblers: mqtt_sync takes the bytes of one TCP packet     *)
(* (chunk), rebuilds MQTT messages in the scratch region and calls          *)
(* mqtt_recv and mqtt_send for each message that is complete.               *)

\* the scratch region with byte b written at offset i
Poke(buf, i, b) ==
    IF i + 1 \in DOMAIN buf THEN [buf EXCEPT ![i + 1] = b] ELSE buf

\* the byte of the scratch region at offset i
Peek(buf, i) == IF i + 1 \in DOMAIN buf THEN buf[i + 1] ELSE 0

\* "Capture a byte from the uip_buf"
Capture(w, b) ==
    [w EXCEPT !.pbuf = Poke(@, w.pbi, b),
              !.pbi = (@ + 1) % 256,
              !.mqtt_partial_buffer_length = (@ + 1) % 256]

\* the while loop goes on with state x
Loop(x) == [w |-> x, ctl |-> "loop"]

\* mqtt_send returned inside the while loop
AfterSend(s) ==
    [w |-> s, ctl |-> IF s.rv # MQTT_OK THEN "return" ELSE "loop"]

\* "mqtt_partial_buffer_length = 0; pbi = 0;" after mqtt_recv
ClearPartial(r) ==
    [r EXCEPT !.mqtt_partial_buffer_length = 0, !.pbi = 0,
              !.remaining_length_captured_flag = 0]

\* mqtt_recv returned inside the while loop
AfterRecv(r, accept, stale) ==
    IF r.rv # MQTT_OK THEN [w |-> ClearPartial(r), ctl |-> "return"]
    ELSE AfterSend(mqtt_send(ClearPartial(r), accept, stale))

\* a message is complete: mqtt_recv, then mqtt_send unless mqtt_recv failed;
\* ctl tells how the while loop goes on: "loop", "break", or "return" when
\* mqtt_sync returns from inside it
RecvThenSend(w, accept, stale, u) ==
    AfterRecv(mqtt_recv(w, u), accept, stale)

\* the byte is in the scratch region, len bytes of the message are there
CountA(w2, len, total_msg_length, accept, stale, u) ==
    IF len = 1
    THEN IF total_msg_length = 0
         THEN [w |-> [w2 EXCEPT !.rv = MQTT_OK], ctl |-> "return"]
         ELSE Loop(w2)
    ELSE IF w2.current_msg_length = 0
    THEN RecvThenSend(w2, accept, stale, u)
    ELSE Loop(w2)

\* the remaining length is taken from the second byte, and counted down
\* with each byte after it
MeasureA(w1, total_msg_length, accept, stale, u) ==
    CountA([w1 EXCEPT !.current_msg_length =
               IF w1.mqtt_partial_buffer_length = 2 THEN Peek(w1.pbuf, 1)
               ELSE IF w1.mqtt_partial_buffer_length > 2 THEN (@ - 1) % 256
               ELSE @],
           w1.mqtt_partial_buffer_length, total_msg_length, accept, stale, u)

\* one pass of the while loop of mqtt_sync for Home Assistant: byte b is
\* taken, total_msg_length bytes of the packet follow it
StepA(w, b, total_msg_length, accept, stale, u) ==
    MeasureA(Capture(w, b), total_msg_length, accept, stale, u)

\* the passes of the while loop for bytes from..to of the packet
RECURSIVE SyncLoopA(_, _, _, _, _, _, _)
SyncLoopA(st, chunk, from, to, accept, stale, u) ==
    IF st.ctl # "loop" THEN st
    ELSE IF from = to
    THEN StepA(st.w, chunk[from], Len(chunk) - from, accept, stale, u)
    ELSE LET mid == (from + to) \div 2
         IN  SyncLoopA(SyncLoopA(st, chunk, from, mid, accept, stale, u),
                       chunk, mid + 1, to, accept, stale, u)

\* the while loop is left: "err = mqtt_send(client)" unless mqtt_sync
\* returned inside the loop
LoopLeft(st, accept, stale) ==
    IF st.ctl = "return" THEN st.w ELSE mqtt_send(st.w, accept, stale)

\* as mqtt_sync_home_assistant, but each call starts a message afresh
mqtt_sync_home_assistant_fresh(w, chunk, accept, stale, u) ==
    LoopLeft(IF chunk = <<>> THEN Loop(w)
             ELSE SyncLoopA(Loop(ClearPartial(w)), chunk, 1, Len(chunk),
                            accept, stale, u),
             accept, stale)

\* mqtt_sync with HOME_ASSISTANT_SUPPORT: chunk is uip_appdata, uip_len long
mqtt_sync_home_assistant(w, chunk, accept, stale, u) ==
    LoopLeft(IF chunk = <<>> THEN Loop(w)
             ELSE SyncLoopA(Loop(w), chunk, 1, Len(chunk), accept, stale, u),
             accept, stale)

\* the prefix of s that a C string holds: up to the first NUL
RECURSIVE CStr(_)
CStr(s) ==
    IF s = <<>> THEN <<>>
    ELSE IF Head(s) = 0 THEN <<>>
    ELSE <<Head(s)>> \o CStr(Tail(s))

\* strncmp(parse_buffer, text, 7) == 0 for a text of seven characters
Matches(parse_buffer, text) ==
    \A i \in 1..7 : parse_buffer[i] = text[i]

\* as IdxChars, but the copy does not stop at ','
IdxChars_no_stop(parse_buffer, k) ==
    [i \in 1..(16 - k) |-> parse_buffer[k + i]]

\* the characters the loop over k = 10..15 copies: up to the first ','
RECURSIVE IdxChars(_, _)
IdxChars(parse_buffer, k) ==
    IF k >= 16 THEN <<>>
    ELSE IF parse_buffer[k + 1] = 44 THEN <<>>
    ELSE <<parse_buffer[k + 1]>> \o IdxChars(parse_buffer, k + 1)

\* case CAPTURE_COMPONENT, the byte at pbi being in parse_buffer already
ComponentEnd(w) ==
    \* "\n\t\"idx\"", then "\n\t\"nval"
    IF Matches(w.parse_buffer, <<10, 9, 34, 105, 100, 120, 34>>)
    THEN LET chars == IdxChars(w.parse_buffer, 10)
         IN  [w EXCEPT !.idx_string = IF chars = <<>> THEN @ ELSE CStr(chars),
                       !.parse_index = 0,
                       !.filter_step = "FIND_COMPONENT_START"]
    ELSE IF Matches(w.parse_buffer, <<10, 9, 34, 110, 118, 97, 108>>)
    THEN [w EXCEPT !.nvalue_string = CStr(<<w.parse_buffer[14]>>),
                   !.pbi = (@ + 1) % 256,
                   !.mqtt_partial_buffer_length = (@ + 1) % 256,
                   !.pbuf = Poke(@, (w.pbi + 1) % 256, 125),
                   !.filter_step = "COMPLETE_MSG_RECEIVE"]
    ELSE [w EXCEPT !.parse_index = 0,
                   !.filter_step = "FIND_COMPONENT_START"]

\* parse_buffer[parse_index++] = the byte at pbi
Parse(w) ==
    [w EXCEPT !.parse_buffer =
                  IF w.parse_index + 1 \in DOMAIN @
                  THEN [@ EXCEPT ![w.parse_index + 1] = Peek(w.pbuf, w.pbi)]
                  ELSE @,
              !.parse_index = (@ + 1) % 256]

\* the switch on filter_step for a PUBLISH message, pbi and
\* mqtt_partial_buffer_length being stepped back to the byte just captured
Filter(w) ==
    IF w.filter_step = "CAPTURE_VARIABLE_HEADER_BYTE1"
    THEN [w EXCEPT !.pbuf = Poke(@, w.pbi, 0),
                   !.mqtt_partial_buffer_length = (@ + 1) % 256,
                   !.pbi = (@ + 1) % 256,
                   !.filter_step = "CAPTURE_VARIABLE_HEADER_BYTE2"]
    ELSE IF w.filter_step = "CAPTURE_VARIABLE_HEADER_BYTE2"
    THEN [w EXCEPT !.pbuf = Poke(Poke(@, w.pbi, 1), w.pbi + 1, 100),
                   !.mqtt_partial_buffer_length = (@ + 2) % 256,
                   !.pbi = (@ + 2) % 256,
                   !.filter_step = "FIND_COMPONENT_START",
                   !.parse_index = 0]
    ELSE IF w.filter_step = "FIND_COMPONENT_START"
    THEN IF Peek(w.pbuf, w.pbi) = 10
         THEN [Parse(w) EXCEPT !.filter_step = "CAPTURE_COMPONENT"]
         ELSE w
    ELSE IF w.filter_step = "CAPTURE_COMPONENT"
    THEN LET Parsed(w2) ==
                 IF w2.parse_index = 19
                 THEN [w2 EXCEPT !.parse_index = 0,
                                 !.filter_step = "FIND_COMPONENT_START"]
                 ELSE w2
         IN  Parsed(IF Peek(w.pbuf, w.pbi) = 44 THEN ComponentEnd(Parse(w))
                    ELSE Parse(w))
    ELSE w

\* the byte just captured is the first byte of the remaining length
LengthByte1(w) ==
    [w EXCEPT !.current_msg_length = BitAnd(Peek(w.pbuf, 1), 127),
              !.remaining_length_captured_flag =
                  IF BitAnd(Peek(w.pbuf, 1), 128) = 0 THEN 1 ELSE @]

\* the second byte of the remaining length left out of the count
LengthByte2_not_added(w) ==
    [w EXCEPT !.pbi = 2,
              !.mqtt_partial_buffer_length = 2,
              !.remaining_length_captured_flag = 1]

\* the byte just captured is the second byte of the remaining length
LengthByte2(w) ==
    [w EXCEPT !.current_msg_length = (@ + Peek(w.pbuf, 2) * 128) % 65536,
              !.pbi = 2,
              !.mqtt_partial_buffer_length = 2,
              !.remaining_length_captured_flag = 1]

\* a byte of a PUBLISH after the remaining length
PublishByte(w) ==
    LET w1 == Filter([w EXCEPT !.pbi = (@ - 1) % 256,
                               !.mqtt_partial_buffer_length = (@ - 1) % 256])
    IN  [w1 EXCEPT !.current_msg_length = (@ - 1) % 65536]

\* the message is complete: its length is written to the scratch region
Completed(w) ==
    [w EXCEPT !.pbuf =
        Poke(@, 1, (w.mqtt_partial_buffer_length - 2) % 256)]

\* "if (current_msg_length == 0)": the message is complete
CountB(w4, accept, stale, u) ==
    IF w4.current_msg_length # 0 THEN Loop(w4)
    ELSE RecvThenSend(Completed(w4), accept, stale, u)

\* the remaining length is known as far as the bytes captured give it
MeasureB(w2, len, accept, stale, u) ==
    IF len = 2 /\ Peek(w2.pbuf, 1) # 0 THEN Loop(w2)
    ELSE IF len = 3 /\ w2.remaining_length_captured_flag = 0
    THEN Loop(LengthByte2(w2))
    ELSE IF len > 2 /\ BitAnd(Peek(w2.pbuf, 0), 240) # 48
            /\ w2.current_msg_length > 59
    THEN [w |-> w2, ctl |-> "break"]
    ELSE CountB(IF len <= 2 THEN w2
                ELSE IF BitAnd(Peek(w2.pbuf, 0), 240) = 48 THEN PublishByte(w2)
                ELSE [w2 EXCEPT !.current_msg_length = (@ - 1) % 65536],
                accept, stale, u)

\* the byte is in the scratch region
CaptureB(w1, accept, stale, u) ==
    IF w1.mqtt_partial_buffer_length = 1 THEN Loop(w1)
    ELSE MeasureB(IF w1.mqtt_partial_buffer_length = 2 THEN LengthByte1(w1)
                  ELSE w1,
                  w1.mqtt_partial_buffer_length, accept, stale, u)

\* "if (mqtt_partial_buffer_length == 0)": a new message starts
StartB(w) ==
    IF w.mqtt_partial_buffer_length = 0
    THEN [w EXCEPT !.idx_string = <<>>, !.nvalue_string = <<>>,
                   !.remaining_length_captured_flag = 0,
                   !.filter_step = "CAPTURE_VARIABLE_HEADER_BYTE1"]
    ELSE w

\* one pass of the while loop of mqtt_sync for Domoticz: byte b is taken
StepB(w, b, accept, stale, u) ==
    CaptureB(Capture(StartB(w), b), accept, stale, u)

\* the passes of the while loop for bytes from..to of the packet
RECURSIVE SyncLoopB(_, _, _, _, _, _, _)
SyncLoopB(st, chunk, from, to, accept, stale, u) ==
    IF st.ctl # "loop" THEN st
    ELSE IF from = to
    THEN StepB(st.w, chunk[from], accept, stale, u)
    ELSE LET mid == (from + to) \div 2
         IN  SyncLoopB(SyncLoopB(st, chunk, from, mid, accept, stale, u),
                       chunk, mid + 1, to, accept, stale, u)

\* mqtt_sync with DOMOTICZ_SUPPORT: chunk is uip_appdata, uip_len long
mqtt_sync_domoticz(w, chunk, accept, stale, u) ==
    LoopLeft(IF chunk = <<>> THEN Loop(w)
             ELSE SyncLoopB(Loop(w), chunk, 1, Len(chunk), accept, stale, u),
             accept, stale)

----------------------------------------------------------------------------
(* State *)

VARIABLES
    client,                 \* struct mqtt_client
    second_counter,         \* seconds since start
    mqtt_start,             \* startup step of main.c
    connack_received, suback_received,
    pbuf,                   \* the scratch region uip_buf[MQTT_PBUF ..]
    mqtt_partial_buffer_length, pbi, current_msg_length,
    remaining_length_captured_flag, filter_step,
    parse_buffer, parse_index, idx_string, nvalue_string,
    sent,                   \* calls of mqtt_pal_sendall by the last operation
    published,              \* calls of the publish callback by the last operation
    recv_log,               \* calls of mqtt_recv by the last operation
    removed,                \* entries the last operation, if mqtt_mq_clean, removed
    rv,                     \* value the last operation returned
    op,                     \* the last operation and its arguments
    link,                   \* the inbound TCP stream, see Arrive and MqttSync
    calls,                  \* operations carried out so far
    codec                   \* a pack function and the unpack function for
                            \* its frame applied on their own, see InitCodec

vars == <<client, second_counter, mqtt_start, connack_received,
          suback_received, pbuf, mqtt_partial_buffer_length, pbi,
          current_msg_length, remaining_length_captured_flag, filter_step,
          parse_buffer, parse_index, idx_string, nvalue_string, sent,
          published, recv_log, removed, rv, op, link, calls, codec>>

\* the state of the program as one record, as the operations take it
W == [client |-> client, second_counter |-> second_counter,
      mqtt_start |-> mqtt_start, connack_received |-> connack_received,
      suback_received |-> suback_received, pbuf |-> pbuf,
      mqtt_partial_buffer_length |-> mqtt_partial_buffer_length,
      pbi |-> pbi, current_msg_length |-> current_msg_length,
      remaining_length_captured_flag |-> remaining_length_captured_flag,
      filter_step |-> filter_step, parse_buffer |-> parse_buffer,
      parse_index |-> parse_index, idx_string |-> idx_string,
      nvalue_string |-> nvalue_string, sent |-> sent,
      published |-> published, recv_log |-> recv_log, removed |-> removed,
      rv |-> rv]

\* the program state becomes w
Becomes(w) ==
    \E v \in {w} :
        /\ client' = v.client
        /\ second_counter' = v.second_counter
        /\ mqtt_start' = v.mqtt_start
        /\ connack_received' = v.connack_received
        /\ suback_received' = v.suback_received
        /\ pbuf' = v.pbuf
        /\ mqtt_partial_buffer_length' = v.mqtt_partial_buffer_length
        /\ pbi' = v.pbi
        /\ current_msg_length' = v.current_msg_length
        /\ remaining_length_captured_flag' = v.remaining_length_captured_flag
        /\ filter_step' = v.filter_step
        /\ parse_buffer' = v.parse_buffer
        /\ parse_index' = v.parse_index
        /\ idx_string' = v.idx_string
        /\ nvalue_string' = v.nvalue_string
        /\ sent' = v.sent
        /\ published' = v.published
        /\ recv_log' = v.recv_log
        /\ removed' = v.removed
        /\ rv' = v.rv

\* the program state is w
Is(w) ==
    /\ client = w.client
    /\ second_counter = w.second_counter
    /\ mqtt_start = w.mqtt_start
    /\ connack_received = w.connack_received
    /\ suback_received = w.suback_received
    /\ pbuf = w.pbuf
    /\ mqtt_partial_buffer_length = w.mqtt_partial_buffer_length
    /\ pbi = w.pbi
    /\ current_msg_length = w.current_msg_length
    /\ remaining_length_captured_flag = w.remaining_length_captured_flag
    /\ filter_step = w.filter_step
    /\ parse_buffer = w.parse_buffer
    /\ parse_index = w.parse_index
    /\ idx_string = w.idx_string
    /\ nvalue_string = w.nvalue_string
    /\ sent = w.sent
    /\ published = w.published
    /\ recv_log = w.recv_log
    /\ removed = w.removed
    /\ rv = w.rv

\* the state at the start of an operation: nothing handed out yet
Call == [W EXCEPT !.sent = <<>>, !.published = <<>>, !.recv_log = <<>>,
                  !.removed = 0]

\* the state after mqtt_init at start-up; the globals are zero
Boot ==
    [client |-> mqtt_init, second_counter |-> 0, mqtt_start |-> 0,
     connack_received |-> 0, suback_received |-> 0,
     pbuf |-> [i \in 1..PbufSize |-> 0],
     mqtt_partial_buffer_length |-> 0, pbi |-> 0, current_msg_length |-> 0,
     remaining_length_captured_flag |-> 0, filter_step |-> 0,
     parse_buffer |-> [i \in 1..20 |-> 0], parse_index |-> 0,
     idx_string |-> <<>>, nvalue_string |-> <<>>,
     sent |-> <<>>, published |-> <<>>, recv_log |-> <<>>, removed |-> 0,
     rv |-> MQTT_OK]

\* the frame and entry regions of the send buffer overlap: queue entries
\* have been written over frame bytes.  What the buffer then holds depends
\* on the layout of struct mqtt_queued_message; the model follows a run up
\* to this state and no further.
Overlap(mq) == mq.curr > mq.queue_tail

----------------------------------------------------------------------------
(* Inputs *)

ClientIds == {<<99>>}
WillTopics == {<<119>>}
WillMessages == {<<>>}
KeepAlives == {40}
Topics == {<<116>>}
Payloads == {<<>>, <<49>>}

\* the values the generator yields first
RECURSIVE PidValues(_, _)
PidValues(x, n) ==
    IF n = 0 THEN {} ELSE {LfsrStep(x)} \cup PidValues(LfsrStep(x), n - 1)

\* what the memory of a new queue entry may hold as packet_id
StalePids == {0, LfsrStep(163)}

\* what one call of the transport accepts
Accepts == {MQTT_ERROR_SOCKET_ERROR, SendBufSize}

\* what the local response of mqtt_recv may hold before it is set
Uninit == {[control_type |-> MQTT_CONTROL_CONNACK, return_code |-> 0,
            packet_id |-> 0]}

\* complete frames of the broker
InboundFrames ==
    {<<32, 2, 0, 0>>, <<32, 2, 0, 2>>, <<32, 2, 0, 5>>, <<208, 0>>,
     <<48, 4, 0, 1, 116, 49>>}
    \cup {<<144, 3, p \div 256, p % 256, c>> :
             p \in PidValues(163, 1), c \in {0, MQTT_SUBACK_FAILURE}}

\* the arguments of pack function fn before it is applied (none, and no
\* function, when fn is ""), and the results once the functions are
Codec(fn) ==
    [fn |-> fn,
     fixed_header |-> [control_type |-> 0, control_flags |-> 0,
                       remaining_length |-> 0],
     topic_name |-> <<>>, application_message |-> <<>>, publish_flags |-> 0,
     bufsz |-> 0,            \* bytes of the buffer the frame is packed in
     buf |-> <<>>,           \* what the buffer holds before a pack function
     shift |-> "sign",       \* what a shift leaving 16 bits yields
     step |-> "",            \* the function applied last
     packed |-> [rv |-> 0, bytes |-> <<>>],
     header |-> mqtt_unpack_fixed_header(<<>>, 0),
     response |-> mqtt_unpack_response(<<>>, 0)]

\* the inbound stream before any frame, the build being for strategy
Link(strategy) ==
    [strategy |-> strategy,  \* which mqtt_sync the build has
     frame |-> <<>>,         \* the frame the broker sent last
     frames |-> <<>>,        \* the frames of a stream, see ArriveStream
     stream |-> <<>>,        \* its bytes that no TCP packet has brought yet
     chunks |-> 0,           \* TCP packets that have brought bytes of it
     delivered |-> <<>>,     \* the calls of mqtt_recv since it began to arrive
     whole |-> <<>>]         \* the calls of mqtt_recv had one packet brought it

----------------------------------------------------------------------------
(* Operations of the control loop.  Each operation is a step relation with *)
(* its arguments as parameters; the action draws the arguments.            *)

\* one more operation of the control loop is carried out
Counted ==
    /\ calls < MaxCalls
    /\ calls' = calls + 1
    /\ UNCHANGED <<link, codec>>

\* an operation on the client alone returned r
ClientBecomes(r, name) ==
    /\ Becomes([Call EXCEPT !.client = r.client, !.rv = r.rv])
    /\ op' = name
    /\ Counted

MqttInit ==
    /\ Becomes([Call EXCEPT !.client = mqtt_init, !.current_msg_length = 0,
                            !.mqtt_partial_buffer_length = 0, !.pbi = 0,
                            !.rv = MQTT_OK])
    /\ op' = "mqtt_init"
    /\ Counted

ConnectStep(client_id, will_topic, will_message, keep_alive, stale) ==
    ClientBecomes(mqtt_connect(client, client_id, will_topic, will_message,
                               NULL, NULL, 2, keep_alive, stale),
                  "mqtt_connect")

MqttConnect ==
    /\ ~Overlap(client.mq)
    /\ \E client_id \in ClientIds, will_topic \in WillTopics,
          will_message \in WillMessages, keep_alive \in KeepAlives,
          stale \in StalePids :
          ConnectStep(client_id, will_topic, will_message, keep_alive, stale)

PublishStep(topic_name, application_message) ==
    ClientBecomes(mqtt_publish(client, topic_name, application_message, 0, 0),
                  "mqtt_publish")

MqttPublish ==
    /\ ~Overlap(client.mq)
    /\ client.pid_lfsr \in {0} \cup PidValues(163, MaxPids - 1)
    /\ \E topic_name \in Topics, application_message \in Payloads :
          PublishStep(topic_name, application_message)

SubscribeStep(topic_name) ==
    ClientBecomes(mqtt_subscribe(client, topic_name, 0, 0), "mqtt_subscribe")

MqttSubscribe ==
    /\ ~Overlap(client.mq)
    /\ client.pid_lfsr \in {0} \cup PidValues(163, MaxPids - 1)
    /\ \E topic_name \in Topics : SubscribeStep(topic_name)

PingStep(stale) == ClientBecomes(mqtt_ping(client, stale), "mqtt_ping")

MqttPing ==
    /\ ~Overlap(client.mq)
    /\ \E stale \in StalePids : PingStep(stale)

DisconnectStep(stale) ==
    ClientBecomes(mqtt_disconnect(client, stale), "mqtt_disconnect")

MqttDisconnect ==
    /\ ~Overlap(client.mq)
    /\ \E stale \in StalePids : DisconnectStep(stale)

MqttMqClean ==
    /\ ~Overlap(client.mq)
    /\ Becomes([Call EXCEPT !.client.mq = mqtt_mq_clean(client.mq),
                            !.removed = Len(client.mq.msgs)
                                        - Len(mqtt_mq_clean(client.mq).msgs),
                            !.rv = MQTT_OK])
    /\ op' = "mqtt_mq_clean"
    /\ Counted

SendStep(accept, stale) ==
    /\ Becomes(mqtt_send(Call, accept, stale))
    /\ op' = "mqtt_send"
    /\ Counted

MqttSend ==
    /\ ~Overlap(client.mq)
    /\ \E accept \in Accepts, stale \in StalePids :
          SendStep(accept, stale)

\* the reassembler has put frame f in the scratch region, from its start,
\* and calls mqtt_recv; mqtt_recv reads no byte after the frame, and the
\* region is kept cleared there
RecvStep(f, u) ==
    /\ Becomes(mqtt_recv([Call EXCEPT !.pbuf = [i \in 1..Len(pbuf) |->
                                                 IF i <= Len(f) THEN f[i]
                                                 ELSE 0],
                                      !.mqtt_partial_buffer_length = Len(f),
                                      !.pbi = Len(f)], u))
    /\ op' = "mqtt_recv"
    /\ Counted

MqttRecv ==
    /\ ~Overlap(client.mq)
    /\ \E f \in InboundFrames, u \in Uninit : RecvStep(f, u)

\* no inbound stream: the frames reach mqtt_recv as MqttRecv says
Init ==
    /\ Is(Boot)
    /\ op = "mqtt_init"
    /\ link = Link("")
    /\ calls = 0
    /\ codec = Codec("")

Next ==
    \/ MqttInit \/ MqttConnect \/ MqttPublish \/ MqttSubscribe \/ MqttPing
    \/ MqttDisconnect \/ MqttMqClean \/ MqttSend \/ MqttRecv

Spec == Init /\ [][Next]_vars

----------------------------------------------------------------------------
(* The send queue and the error latch *)

\* C1: in every reachable state the frame bytes [mem_start, curr) and the
\* queue entries [queue_tail, mem_end) do not overlap: curr <= queue_tail
C1_RegionsNeverOverlap ==
    client.mq.curr <= client.mq.queue_tail

\* the bytes a frame takes, from packing it into a buffer with room for it
FrameSize(p) == p.rv

\* the queue has nothing to clean and its free size is less than size
DoesNotFit(size) ==
    /\ mqtt_mq_clean(client.mq) = client.mq
    /\ client.mq.curr_sz < size

\* the operation returned an error and left the queue as it was
FailedCleanly ==
    /\ rv' < 0
    /\ client'.mq = client.mq

\* C2: an enqueueing operation whose encoded frame does not fit in the free
\* space of the queue fails with an error status and registers nothing:
\* the entries, curr and queue_tail are unchanged
C2_NoFitFailsCleanly ==
    [][ /\ \A client_id \in ClientIds, will_topic \in WillTopics,
              will_message \in WillMessages, keep_alive \in KeepAlives,
              stale \in StalePids :
              ( /\ ConnectStep(client_id, will_topic, will_message,
                               keep_alive, stale)
                /\ DoesNotFit(FrameSize(mqtt_pack_connection_request(
                       SendBufSize, client_id, will_topic, will_message,
                       NULL, NULL, 2, keep_alive))) )
              => FailedCleanly
        /\ \A topic_name \in Topics, application_message \in Payloads :
              ( /\ PublishStep(topic_name, application_message)
                /\ DoesNotFit(FrameSize(mqtt_pack_publish_request(
                       SendBufSize, topic_name, 1, application_message, 0))) )
              => FailedCleanly
        /\ \A topic_name \in Topics :
              ( /\ SubscribeStep(topic_name)
                /\ DoesNotFit(FrameSize(mqtt_pack_subscribe_request(
                       SendBufSize, 1, topic_name, 0))) )
              => FailedCleanly
        /\ \A stale \in StalePids :
              ( /\ PingStep(stale)
                /\ DoesNotFit(FrameSize(mqtt_pack_ping_request(SendBufSize))) )
              => FailedCleanly
        /\ \A stale \in StalePids :
              ( /\ DisconnectStep(stale)
                /\ DoesNotFit(FrameSize(mqtt_pack_disconnect(SendBufSize))) )
              => FailedCleanly
      ]_vars

\* the operation returned the stored error and registered nothing
ShortCircuited ==
    /\ rv' = client.error
    /\ client'.error = client.error
    /\ client'.mq = client.mq

\* C3: while client->error is negative, every mqtt_publish and
\* mqtt_subscribe (also with the initial MQTT_ERROR_CONNECT_NOT_CALLED) and
\* every mqtt_connect (with any other negative error) returns exactly the
\* stored error and registers no entry
C3_StoredErrorShortCircuits ==
    [][ client.error < 0 =>
          /\ op' \in {"mqtt_publish", "mqtt_subscribe"} => ShortCircuited
          /\ ( /\ op' = "mqtt_connect"
               /\ client.error # MQTT_ERROR_CONNECT_NOT_CALLED )
             => ShortCircuited
      ]_vars

\* a publish has returned a stored transport error
C3_Witness ==
    /\ op = "mqtt_publish"
    /\ rv = MQTT_ERROR_SOCKET_ERROR
    /\ client.error = MQTT_ERROR_SOCKET_ERROR

\* C4 as stated: a negative stored error is cleared by a following
\* mqtt_connect, which succeeds and leaves client->error at MQTT_OK
C4_ConnectClearsAnyError ==
    [][ (client.error < 0 /\ op' = "mqtt_connect")
          => (rv' = MQTT_OK /\ client'.error = MQTT_OK) ]_vars

\* C4 amended: mqtt_connect clears MQTT_ERROR_CONNECT_NOT_CALLED only: that
\* connect returns MQTT_OK and leaves client->error at MQTT_OK; any other
\* negative stored error is returned by mqtt_connect, stays stored, and no
\* entry is registered
C4_ConnectClearsConnectNotCalled ==
    [][ (client.error < 0 /\ op' = "mqtt_connect")
          => IF client.error = MQTT_ERROR_CONNECT_NOT_CALLED
             THEN rv' = MQTT_OK /\ client'.error = MQTT_OK
             ELSE ShortCircuited ]_vars

\* a connect has returned the error a CONNACK refusal stored
C4_Witness ==
    /\ op = "mqtt_connect"
    /\ rv = MQTT_ERROR_CONNECTION_REFUSED
    /\ client.error = MQTT_ERROR_CONNECTION_REFUSED


----------------------------------------------------------------------------
(* Connect handshake *)

ConnackAccepted == <<32, 2, 0, MQTT_CONNACK_ACCEPTED>>

\* the queue holds the CONNECT frame alone, in the given state
OnlyConnect(c, state) ==
    /\ Len(c.mq.msgs) = 1
    /\ c.mq.msgs[1].control_type = MQTT_CONTROL_CONNECT
    /\ c.mq.msgs[1].size > 0
    /\ c.mq.msgs[1].state = state

\* C5: after mqtt_connect on a freshly initialised client the next
\* mqtt_send (the transport taking the frame) hands exactly one frame, the
\* CONNECT frame, to the transport and leaves its entry AWAITING_ACK; when
\* an accepted CONNACK is then received, mqtt_recv marks the entry
\* COMPLETE, sets connack_received and leaves client->error at MQTT_OK
C5_ConnectHandshake ==
    [][ /\ ( /\ op = "mqtt_connect" /\ rv = MQTT_OK
             /\ OnlyConnect(client, MQTT_QUEUED_UNSENT)
             /\ \E stale \in StalePids : SendStep(SendBufSize, stale) )
           => /\ Len(sent') = 1
              /\ sent'[1].frame = FrameOf(client.mq, 1)
              /\ sent'[1].frame[1] = MQTT_CONTROL_CONNECT * 16
              /\ sent'[1].tmp = client.mq.msgs[1].size
              /\ OnlyConnect(client', MQTT_QUEUED_AWAITING_ACK)
              /\ rv' = MQTT_OK
        /\ ( /\ op = "mqtt_send" /\ rv = MQTT_OK
             /\ OnlyConnect(client, MQTT_QUEUED_AWAITING_ACK)
             /\ client.error = MQTT_OK
             /\ \E u \in Uninit : RecvStep(ConnackAccepted, u) )
           => /\ OnlyConnect(client', MQTT_QUEUED_COMPLETE)
              /\ connack_received' = 1
              /\ client'.error = MQTT_OK
              /\ rv' = MQTT_OK
      ]_vars

\* connect, send and the accepted CONNACK, in three calls
C5_Witness ==
    /\ calls = 3
    /\ op = "mqtt_recv"
    /\ OnlyConnect(client, MQTT_QUEUED_COMPLETE)
    /\ connack_received = 1
    /\ client.error = MQTT_OK

----------------------------------------------------------------------------
(* Packet identifiers *)

NeedsPacketId(msg) ==
    msg.control_type \in {MQTT_CONTROL_PUBLISH, MQTT_CONTROL_SUBSCRIBE}

\* C6: the value mqtt_next_pid returns is not zero and differs from the
\* packet_id of every entry in the queue, and no two PUBLISH or SUBSCRIBE
\* entries that are in the queue together have the same packet_id
C6_PacketIdsUnique ==
    LET msgs == client.mq.msgs
        pid == mqtt_next_pid(client).pid_lfsr
    IN  /\ pid # 0
        /\ \A i \in 1..Len(msgs) : msgs[i].packet_id # pid
        /\ \A i, j \in 1..Len(msgs) :
              (i < j /\ NeedsPacketId(msgs[i]) /\ NeedsPacketId(msgs[j]))
              => msgs[i].packet_id # msgs[j].packet_id

\* the first value of the generator was in the queue, in the entry of the
\* CONNECT frame, when mqtt_publish drew its value in the second call
C6_Witness ==
    LET msgs == client.mq.msgs
    IN  /\ calls = 2
        /\ op = "mqtt_publish"
        /\ Len(msgs) = 2
        /\ msgs[1].control_type = MQTT_CONTROL_CONNECT
        /\ msgs[1].packet_id = LfsrStep(163)
        /\ msgs[2].size > 0
        /\ msgs[2].packet_id = LfsrStep(LfsrStep(163))

----------------------------------------------------------------------------
(* Cleaning the queue *)

RECURSIVE SumSizes(_, _, _)
SumSizes(msgs, from, to) ==
    IF from > to THEN 0 ELSE msgs[from].size + SumSizes(msgs, from + 1, to)

\* entries from..to of msgs are all COMPLETE
AllComplete(msgs, from, to) ==
    \A i \in from..to : msgs[i].state = MQTT_QUEUED_COMPLETE

\* entries from..to of msgs are all not COMPLETE
NoneComplete(msgs, from, to) ==
    \A i \in from..to : msgs[i].state # MQTT_QUEUED_COMPLETE

\* mq1 is mq less the frames of entries gone, holding entries from..to of
\* mq in their order, each with the bytes it had
Compacted(mq, mq1, gone, from, to) ==
    /\ mq1.curr = mq.curr - gone
    /\ Len(mq1.mem) = mq1.curr
    /\ Len(mq1.msgs) = to - from + 1
    /\ (mem_end - mq1.queue_tail) \div QueuedMessageSize = to - from + 1
    /\ \A i \in 1..(to - from + 1) :
          /\ FrameOf(mq1, i) = FrameOf(mq, from + i - 1)
          /\ mq1.msgs[i].state = mq.msgs[from + i - 1].state
          /\ mq1.msgs[i].control_type = mq.msgs[from + i - 1].control_type
          /\ mq1.msgs[i].packet_id = mq.msgs[from + i - 1].packet_id

\* C7 as stated: when the k most recently registered of N entries (each
\* holding a frame) are COMPLETE and the other N-k are not, mqtt_mq_clean
\* frees the bytes of those k frames and keeps the other N-k entries,
\* bytes and order
C7_CleanRemovesRecentRun ==
    [][ op' = "mqtt_mq_clean" =>
          LET mq == client.mq
              N == Len(mq.msgs)
          IN  \A k \in 0..N :
                ( /\ \A i \in 1..N : mq.msgs[i].size > 0
                  /\ AllComplete(mq.msgs, N - k + 1, N)
                  /\ NoneComplete(mq.msgs, 1, N - k) )
                => Compacted(mq, client'.mq,
                             SumSizes(mq.msgs, N - k + 1, N), 1, N - k)
      ]_vars

\* C7 amended: when the k earliest registered of N entries are COMPLETE
\* and the other N-k are not, mqtt_mq_clean frees the bytes of those k
\* frames and keeps the other N-k entries, bytes and order
C7_CleanRemovesOldestRun ==
    [][ op' = "mqtt_mq_clean" =>
          LET mq == client.mq
              N == Len(mq.msgs)
          IN  \A k \in 0..N :
                ( /\ AllComplete(mq.msgs, 1, k)
                  /\ NoneComplete(mq.msgs, k + 1, N) )
                => /\ Compacted(mq, client'.mq, SumSizes(mq.msgs, 1, k),
                                k + 1, N)
                   /\ removed' = k
      ]_vars

\* mqtt_mq_clean has removed entries and kept a frame that it moved
C7_Witness ==
    /\ op = "mqtt_mq_clean"
    /\ removed >= 1
    /\ Len(client.mq.msgs) >= 1
    /\ client.mq.msgs[1].size > 0
    /\ client.mq.msgs[1].state # MQTT_QUEUED_COMPLETE

\* C8: when every entry of the queue is COMPLETE, mqtt_mq_clean leaves the
\* queue as mqtt_mq_init does: curr at mem_start, queue_tail at mem_end, no
\* entry, and the free size of a new queue
C8_CleanResetsWhenAllComplete ==
    [][ ( /\ op' = "mqtt_mq_clean"
          /\ AllComplete(client.mq.msgs, 1, Len(client.mq.msgs)) )
        => /\ client'.mq.curr = 0
           /\ client'.mq.queue_tail = mem_end
           /\ (mem_end - client'.mq.queue_tail) \div QueuedMessageSize = 0
           /\ client'.mq.msgs = <<>>
           /\ client'.mq.curr_sz = mqtt_mq_init.curr_sz
           /\ mqtt_mq_currsz(client'.mq) = mqtt_mq_currsz(mqtt_mq_init)
      ]_vars

\* mqtt_mq_clean has emptied a queue that held frames
C8_Witness ==
    /\ op = "mqtt_mq_clean"
    /\ removed >= 1
    /\ client.mq.msgs = <<>>
    /\ client.mq.curr = 0

\* C31: mqtt_mq_clean removes a run of entries at the old end of the queue,
\* all of them COMPLETE (so an entry that is not COMPLETE stays, and so does
\* a COMPLETE entry registered after one that is not), and every entry that
\* stays keeps state, control type, packet id, size and frame bytes, its
\* start being less by the number of bytes removed
C31_CleanKeepsPending ==
    [][ ( calls' # calls /\ op' = "mqtt_mq_clean" )
        => LET mq == client.mq
               mq1 == client'.mq
               N == Len(mq.msgs)
               k == N - Len(mq1.msgs)
           IN  /\ k \in 0..N
               /\ AllComplete(mq.msgs, 1, k)
               /\ \A i \in 1..N :
                     \/ mq.msgs[i].state = MQTT_QUEUED_COMPLETE
                     \/ i > k
               /\ \A i \in 1..N :
                     ( /\ mq.msgs[i].state = MQTT_QUEUED_COMPLETE
                       /\ \E j \in 1..(i - 1) :
                             mq.msgs[j].state # MQTT_QUEUED_COMPLETE )
                     => i > k
               /\ \A i \in (k + 1)..N :
                     /\ mq1.msgs[i - k].state = mq.msgs[i].state
                     /\ mq1.msgs[i - k].control_type = mq.msgs[i].control_type
                     /\ mq1.msgs[i - k].packet_id = mq.msgs[i].packet_id
                     /\ mq1.msgs[i - k].size = mq.msgs[i].size
                     /\ FrameOf(mq1, i - k) = FrameOf(mq, i)
                     /\ mq1.msgs[i - k].start
                           = mq.msgs[i].start - (mq.curr - mq1.curr)
               /\ mq.curr - mq1.curr = SumSizes(mq.msgs, 1, k)
      ]_vars

\* mqtt_mq_clean has removed a COMPLETE entry and moved the frame of a
\* PINGREQ that is not COMPLETE, and the entry with it, to the start
C31_Witness ==
    /\ op = "mqtt_mq_clean"
    /\ removed >= 1
    /\ Len(client.mq.msgs) >= 1
    /\ client.mq.msgs[1].control_type = MQTT_CONTROL_PINGREQ
    /\ client.mq.msgs[1].state # MQTT_QUEUED_COMPLETE
    /\ client.mq.msgs[1].start = 0
    /\ FrameOf(client.mq, 1) = <<MQTT_CONTROL_PINGREQ * 16, 0>>
    /\ client.mq.curr = SumSizes(client.mq.msgs, 1, Len(client.mq.msgs))

----------------------------------------------------------------------------
(* The inbound stream: the broker sends a frame, TCP brings its bytes in    *)
(* packets of any sizes, and mqtt_sync is called for each packet.           *)

mqtt_sync(w, strategy, chunk, accept, stale, u) ==
    IF strategy = "HOME_ASSISTANT_SUPPORT"
    THEN mqtt_sync_home_assistant(w, chunk, accept, stale, u)
    ELSE mqtt_sync_domoticz(w, chunk, accept, stale, u)

\* a PUBLISH frame of QoS 0 with a remaining length of one byte
PublishFrame(topic_name, payload) ==
    <<48, 2 + Len(topic_name) + Len(payload), 0, Len(topic_name)>>
        \o topic_name \o payload

\* LF TAB "idx" : 42,   and   LF TAB "nvalue" : 1,
IdxComponent == <<10, 9, 34, 105, 100, 120, 34, 32, 58, 32, 52, 50, 44>>
NvalueComponent ==
    <<10, 9, 34, 110, 118, 97, 108, 117, 101, 34, 32, 58, 32, 49, 44>>

\* LF TAB "a":1,
OtherComponent == <<10, 9, 34, 97, 34, 58, 49, 44>>

\* messages of domoticz/out: the two components alone, and in braces after
\* another component
DomoticzFrames ==
    {PublishFrame(<<116>>, IdxComponent \o NvalueComponent),
     PublishFrame(<<116>>, <<123>> \o OtherComponent \o IdxComponent
                               \o NvalueComponent \o <<10, 125>>)}

\* the broker sends frame f: nothing of it has reached the program yet
Arrive ==
    /\ link.stream = <<>>
    /\ calls < MaxChunks
    /\ \E f \in IF link.strategy = "DOMOTICZ_SUPPORT"
                THEN InboundFrames \cup DomoticzFrames
                ELSE InboundFrames,
          u \in Uninit :
          link' = [link EXCEPT
                     !.frame = f, !.stream = f, !.chunks = 0,
                     !.delivered = <<>>,
                     !.whole = mqtt_sync(Call, link.strategy, f, SendBufSize,
                                         0, u).recv_log]
    /\ Becomes(W)
    /\ UNCHANGED <<op, calls, codec>>

\* mqtt_sync is called with the next n bytes of the stream; the transport
\* takes what mqtt_send hands it
SyncStep(n, accept, stale, u) ==
    /\ calls < MaxChunks
    /\ calls' = calls + 1
    /\ op' = "mqtt_sync"
    /\ UNCHANGED codec
    /\ \E w \in {mqtt_sync(Call, link.strategy, SubSeq(link.stream, 1, n),
                           accept, stale, u)} :
          /\ Becomes(w)
          /\ link' = [link EXCEPT
                        !.stream = SubSeq(@, n + 1, Len(@)),
                        !.chunks = @ + 1,
                        !.delivered = @ \o w.recv_log]

\* a TCP packet brings the next n bytes of the stream
MqttSync ==
    /\ ~Overlap(client.mq)
    /\ link.stream # <<>>
    /\ \E n \in 1..Len(link.stream), u \in Uninit :
          SyncStep(n, SendBufSize, 0, u)

InitSync ==
    /\ Is(Boot)
    /\ op = "mqtt_init"
    /\ link \in {Link(strategy) :
                   strategy \in {"HOME_ASSISTANT_SUPPORT", "DOMOTICZ_SUPPORT"}}
    /\ calls = 0
    /\ codec = Codec("")

NextSync == Arrive \/ MqttSync \/ MqttConnect

SpecSync == InitSync /\ [][NextSync]_vars

\* C9: the calls of mqtt_recv that the packets bringing a frame have caused,
\* with the scratch region and length each saw, are those that one packet
\* with the whole frame causes: at every point the first of them, and all
\* of them once the last byte is in
C9_ChunkBoundaryIndependence ==
    /\ Len(link.delivered) <= Len(link.whole)
    /\ link.delivered = SubSeq(link.whole, 1, Len(link.delivered))
    /\ link.stream = <<>> => link.delivered = link.whole

\* a frame came in two packets, the first with its first byte alone, and
\* mqtt_recv was called for it
C9_Witness ==
    /\ link.stream = <<>>
    /\ link.chunks = 2
    /\ pbi = 0
    /\ Len(link.frame) > 2
    /\ Len(link.delivered) = 1
    /\ link.delivered[1].len >= 4

\* C10: for a PUBLISH whose payload has the components LF TAB "idx" : 42,
\* and LF TAB "nvalue" : 1, mqtt_sync for Domoticz calls mqtt_recv once,
\* after the last byte, with "42" in idx_string and "1" in nvalue_string
\* and a frame in the scratch region that mqtt_unpack_fixed_header accepts,
\* whatever packets bring the bytes
C10_FieldExtraction ==
    (link.strategy = "DOMOTICZ_SUPPORT" /\ link.frame \in DomoticzFrames)
    => /\ Len(link.delivered) = IF link.stream = <<>> THEN 1 ELSE 0
       /\ \A i \in 1..Len(link.delivered) :
             LET call == link.delivered[i]
             IN  /\ call.idx_string = <<52, 50>>
                 /\ call.nvalue_string = <<49>>
                 /\ mqtt_unpack_fixed_header(call.buf, call.len).rv > 0
                 /\ mqtt_unpack_response(call.buf, call.len).rv = call.len

\* a message of domoticz/out came in three packets or more
C10_Witness ==
    /\ link.strategy = "DOMOTICZ_SUPPORT"
    /\ link.frame \in DomoticzFrames
    /\ link.stream = <<>>
    /\ link.chunks >= 3
    /\ Len(link.delivered) = 1
    /\ idx_string = <<52, 50>>
    /\ nvalue_string = <<49>>

----------------------------------------------------------------------------
(* Streams: the broker sends frames back to back, among them frames that   *)
(* are longer than the 60 bytes that the comments of mqtt_sync expect.     *)
(* The model keeps the first PbufSize bytes of the scratch region; pbi and  *)
(* mqtt_partial_buffer_length count every byte.                             *)

\* a packet of a stream ends at most MaxSplit bytes after the packet before
\* it ended, or at most MaxSplit bytes before the end of the stream
MaxSplit == 6

\* a frame with control byte first and a remaining length of R in one or
\* two bytes: its body begins with the bytes of body and goes on with 'x'
LongFrame(first, R, body) ==
    <<first>> \o (IF R <= 127 THEN <<R>> ELSE <<128 + (R % 128), R \div 128>>)
        \o [i \in 1..R |-> IF i <= Len(body) THEN body[i] ELSE 120]

\* the frames that the broker sends one after the other: two short frames
\* (CONNACK, PINGRESP, a PUBLISH of "1" to "t", a failed SUBACK); a SUBACK
\* with a remaining length of 60 and a PINGRESP; a message of domoticz/out
\* with a remaining length of 127 or of 128; for Domoticz a message of
\* domoticz/out and a PINGRESP
Streams(strategy) ==
    LET short == {<<32, 2, 0, 0>>, <<208, 0>>, <<48, 4, 0, 1, 116, 49>>}
                 \cup {<<144, 3, p \div 256, p % 256, MQTT_SUBACK_FAILURE>> :
                          p \in PidValues(163, 1)}
    IN  {<<a, b>> : a \in short, b \in short}
        \cup {<<LongFrame(144, 60, <<>>), <<208, 0>>>>}
        \cup {<<LongFrame(48, R, <<0, 1, 116>> \o IdxComponent
                                   \o NvalueComponent)>> : R \in {127, 128}}
        \cup IF strategy = "DOMOTICZ_SUPPORT"
             THEN {<<PublishFrame(<<116>>, IdxComponent \o NvalueComponent),
                     <<208, 0>>>>}
             ELSE {}

\* the bytes of the first j frames
RECURSIVE Flat(_, _)
Flat(frames, j) ==
    IF j = 0 THEN <<>> ELSE Flat(frames, j - 1) \o frames[j]

\* the broker sends the frames of a stream once the client has connected:
\* nothing of them has reached the program yet
ArriveStream ==
    /\ link.frames = <<>>
    /\ calls < MaxChunks
    /\ client.error # MQTT_ERROR_CONNECT_NOT_CALLED
    /\ \E frames \in Streams(link.strategy), u \in Uninit :
          link' = [link EXCEPT
                     !.frames = frames,
                     !.frame = Flat(frames, Len(frames)),
                     !.stream = Flat(frames, Len(frames)),
                     !.chunks = 0,
                     !.delivered = <<>>,
                     !.whole = mqtt_sync(Call, link.strategy,
                                         Flat(frames, Len(frames)),
                                         SendBufSize, 0, u).recv_log]
    /\ Becomes(W)
    /\ UNCHANGED <<op, calls, codec>>

\* a TCP packet brings the next n bytes of the stream
MqttSyncStream ==
    /\ ~Overlap(client.mq)
    /\ link.frames # <<>>
    /\ link.stream # <<>>
    /\ \E n \in 1..Len(link.stream), u \in Uninit :
          /\ n <= MaxSplit \/ Len(link.stream) - n <= MaxSplit
          /\ SyncStep(n, SendBufSize, 0, u)

NextStream == ArriveStream \/ MqttSyncStream \/ MqttConnect \/ MqttSubscribe

SpecStream == InitSync /\ [][NextStream]_vars

\* a call of mqtt_sync for a packet of a stream
SyncCalled == calls' # calls /\ op' = "mqtt_sync"

\* bytes of the stream that the packets so far have brought
Consumed == Len(link.frame) - Len(link.stream)

\* frames of the stream whose last byte the packets so far have brought
Done ==
    Cardinality({j \in 1..Len(link.frames) :
                    Len(Flat(link.frames, j)) <= Consumed})

\* the last packet ended with the last byte of a frame, or none has come
AtFrameEnd ==
    \E j \in 0..Len(link.frames) : Len(Flat(link.frames, j)) = Consumed

\* C32: of a stream of complete frames that come back to back, in one
\* packet or in several, mqtt_sync has handed to mqtt_recv exactly the
\* frames whose last byte has come, each once and in the order of the
\* stream (mqtt_recv saw the control byte of the frame, and for Home
\* Assistant its bytes and its length), and mqtt_partial_buffer_length and
\* pbi are 0 after the last byte of a frame and not inside a frame
C32_OncePerFrame ==
    link.frames # <<>>
    => /\ Len(link.delivered) = Done
       /\ \A i \in 1..Min(Done, Len(link.delivered)) :
             LET call == link.delivered[i]
                 f == link.frames[i]
             IN  /\ call.buf[1] = f[1]
                 /\ link.strategy = "HOME_ASSISTANT_SUPPORT"
                       => /\ call.len = Len(f)
                          /\ call.buf = SubSeq(f, 1, Min(Len(f), PbufSize))
       /\ AtFrameEnd <=> (mqtt_partial_buffer_length = 0 /\ pbi = 0)

\* the stream begins with a frame that is no PUBLISH and has a remaining
\* length above 59, and a frame follows it
OversizedFirst ==
    /\ Len(link.frames) = 2
    /\ BitAnd(link.frames[1][1], 240) # 48
    /\ link.frames[1][2] > 59

\* C33: when mqtt_sync for Domoticz meets a frame of another type than
\* PUBLISH with a remaining length above 59, it gives the frame up: pbi
\* stays within 61 whatever packets follow, the frame is not handed to
\* mqtt_recv, mqtt_partial_buffer_length and pbi are 0 once its bytes are
\* through, and the frame after it is handed to mqtt_recv as it was sent
C33_OversizedFrameGivenUp ==
    (link.strategy = "DOMOTICZ_SUPPORT" /\ OversizedFirst)
    => /\ pbi <= 61
       /\ \A i \in 1..Len(link.delivered) :
             link.delivered[i].buf[1] # link.frames[1][1]
       /\ Consumed = Len(link.frames[1])
             => mqtt_partial_buffer_length = 0 /\ pbi = 0
       /\ link.stream = <<>>
             => /\ Len(link.delivered) = 1
                /\ link.delivered[1].buf = link.frames[2]

\* the first frame of the stream is handed to mqtt_recv when its last byte
\* has come and not before, once if it is the only frame, and the second
\* byte of the scratch region is then the number of bytes that follow it
FirstFrameCounted ==
    LET f == link.frames[1]
    IN  /\ Consumed < Len(f) => link.delivered = <<>>
        /\ Consumed >= Len(f)
              => /\ Len(link.delivered) >= 1
                 /\ link.delivered[1].buf[1] = f[1]
                 /\ link.delivered[1].buf[2] = link.delivered[1].len - 2
        /\ (link.stream = <<>> /\ Len(link.frames) = 1)
              => Len(link.delivered) = 1

\* C34 as stated: for every frame with a remaining length R in one byte
\* or in two, mqtt_sync for Domoticz takes exactly R bytes after the
\* length field before it calls mqtt_recv, once, and the length byte it
\* leaves in the scratch region is the number of bytes that follow it
C34_RemainingLengthAnyFrame ==
    (link.strategy = "DOMOTICZ_SUPPORT" /\ link.frames # <<>>)
    => FirstFrameCounted

\* C34: the same for every PUBLISH frame, and for every frame of another
\* type with a remaining length of at most 59
C34_RemainingLengthPublishOrShort ==
    ( /\ link.strategy = "DOMOTICZ_SUPPORT"
      /\ link.frames # <<>>
      /\ \/ BitAnd(link.frames[1][1], 240) = 48
         \/ link.frames[1][2] <= 59 )
    => FirstFrameCounted

\* a PUBLISH with a remaining length of 128, in two bytes, came in two
\* packets and was handed to mqtt_recv once
C34_Witness ==
    /\ link.strategy = "DOMOTICZ_SUPPORT"
    /\ link.frames # <<>>
    /\ Len(link.frames[1]) = 131
    /\ SubSeq(link.frames[1], 1, 3) = <<48, 128, 1>>
    /\ link.stream = <<>>
    /\ link.chunks = 2
    /\ Len(link.delivered) = 1
    /\ link.delivered[1].buf = <<48, 4, 0, 1, 100, 44>>
    /\ pbi = 0

\* C40: with mqtt_sync for Home Assistant pbi never exceeds 60, whatever
\* bytes the stream brings, a length byte of 60 or more or one with its
\* top bit set among them
C40_ScratchBoundHomeAssistant ==
    (link.strategy = "HOME_ASSISTANT_SUPPORT" /\ link.frames # <<>>)
    => pbi <= 60

\* the packet of this call brings the last byte of the first frame of the
\* stream, a PUBLISH (and brings no other frame to its end when alone is
\* TRUE)
FirstPublishCompleted(alone) ==
    /\ SyncCalled
    /\ link.frames # <<>>
    /\ BitAnd(link.frames[1][1], 240) = 48
    /\ Consumed < Len(link.frames[1])
    /\ Consumed' >= Len(link.frames[1])
    /\ alone => Done' = 1

\* C39: mqtt_sync for Domoticz hands every complete PUBLISH to mqtt_recv as
\* a frame that mqtt_recv decodes and passes to the callback, once, with
\* MQTT_OK returned and client->error as it was, whether the payload has
\* an idx or nvalue component or not
C39_EveryPublishAccepted ==
    [][ /\ ( link.strategy = "DOMOTICZ_SUPPORT" /\ FirstPublishCompleted(FALSE) )
            => /\ Len(recv_log') >= 1
               /\ Len(published') >= 1
               /\ published'[1].decoded
        /\ ( link.strategy = "DOMOTICZ_SUPPORT" /\ FirstPublishCompleted(TRUE) )
            => /\ Len(recv_log') = 1
               /\ Len(published') = 1
               /\ rv' = MQTT_OK
               /\ client'.error = client.error
      ]_vars

\* mqtt_sync called mqtt_recv once, with a scratch region for which
\* mqtt_unpack_response returns 0
OneCallUndecoded ==
    /\ SyncCalled
    /\ Len(recv_log') = 1
    /\ mqtt_unpack_response(recv_log'[1].buf, recv_log'[1].len).rv = 0

\* C35: when mqtt_unpack_response returns 0 for the scratch region,
\* mqtt_recv calls no callback, leaves connack_received and
\* suback_received as they are and marks no entry COMPLETE (mqtt_send,
\* which mqtt_sync calls after it, completes no CONNECT, SUBSCRIBE or
\* PINGREQ)
C35_NothingOnIncomplete ==
    [][ OneCallUndecoded
        => /\ published' = <<>>
           /\ connack_received' = connack_received
           /\ suback_received' = suback_received
           /\ \A i \in 1..Len(client.mq.msgs) :
                 ( /\ client.mq.msgs[i].control_type
                         \in {MQTT_CONTROL_CONNECT, MQTT_CONTROL_SUBSCRIBE,
                              MQTT_CONTROL_PINGREQ}
                   /\ client.mq.msgs[i].state # MQTT_QUEUED_COMPLETE )
                 => client'.mq.msgs[i].state # MQTT_QUEUED_COMPLETE
      ]_vars

----------------------------------------------------------------------------
(* Time: second_counter advances between the calls of the control loop,    *)
(* main.c finishes its start-up once the broker has accepted the           *)
(* connection, the transport may take a frame in part, and the broker may  *)
(* send frames the client does not expect.                                 *)

MaxSeconds == 62

\* more seconds than the response timeout pass between two calls
Tick ==
    /\ \E d \in {client.response_timeout + 1} :
          /\ second_counter + d <= MaxSeconds
          /\ Becomes([W EXCEPT !.second_counter = @ + d])
    /\ UNCHANGED <<op, link, calls, codec>>

\* main.c ends its start-up
StartComplete ==
    /\ connack_received = 1
    /\ mqtt_start # MQTT_START_COMPLETE
    /\ Becomes([W EXCEPT !.mqtt_start = MQTT_START_COMPLETE])
    /\ UNCHANGED <<op, link, calls, codec>>

\* mqtt_send with a transport that may take the first byte of a frame alone
MqttSendPartial ==
    /\ ~Overlap(client.mq)
    /\ \E accept \in Accepts \cup {1}, stale \in StalePids :
          SendStep(accept, stale)

\* mqtt_recv with a frame of InboundFrames in the scratch region, or a
\* PUBLISH with topic "t" and no payload, a PUBACK or a PINGREQ
MqttRecvAny ==
    /\ ~Overlap(client.mq)
    /\ \E f \in InboundFrames
                \cup {<<48, 3, 0, 1, 116>>,
                      <<MQTT_CONTROL_PUBACK * 16, 2, 0, 1>>, <<192, 0>>},
          u \in Uninit : RecvStep(f, u)

NextTimed ==
    \/ MqttConnect \/ MqttPing \/ MqttRecvAny \/ MqttSendPartial \/ Tick
    \/ StartComplete

SpecTimed == Init /\ [][NextTimed]_vars

\* mqtt_connect with a keep-alive interval of 42 seconds (three quarters of
\* it are 31 seconds) or of 21848 seconds (three times it is more than an
\* unsigned int of 16 bits holds)
MqttConnectKeepAlive ==
    /\ ~Overlap(client.mq)
    /\ \E client_id \in ClientIds, will_topic \in WillTopics,
          will_message \in WillMessages,
          keep_alive \in {42, 21848}, stale \in StalePids :
          ConnectStep(client_id, will_topic, will_message, keep_alive, stale)

NextKeepAlive ==
    \/ MqttConnectKeepAlive \/ MqttRecv \/ MqttSendPartial \/ Tick
    \/ StartComplete

\* the keep-alive of mqtt_send, over the keep-alive intervals
SpecKeepAlive == Init /\ [][NextKeepAlive]_vars

NextWholeFrames ==
    \/ MqttConnectKeepAlive \/ MqttRecv \/ MqttSend \/ Tick \/ StartComplete

\* the keep-alive with the transport of this application, which takes every
\* frame whole (or fails): the application calls mqtt_ping nowhere
SpecWholeFrames == Init /\ [][NextWholeFrames]_vars

\* the call of mqtt_send that every pass of the control loop makes, with
\* the transport taking the frame whole; the passes are not counted
MqttSendLoop ==
    /\ ~Overlap(client.mq)
    /\ \E stale \in StalePids :
          Becomes(mqtt_send(Call, SendBufSize, stale))
    /\ op' = "mqtt_send"
    /\ UNCHANGED <<link, calls, codec>>

NextLive ==
    \/ MqttConnect \/ MqttSubscribe \/ MqttPing \/ Tick \/ MqttSendLoop

\* the control loop keeps calling mqtt_send: the main loop calls mqtt_sync,
\* and with it mqtt_send, on every pass
SpecLive == Init /\ [][NextLive]_vars /\ WF_vars(MqttSendLoop)

\* the number of entries that are UNSENT
Unsent ==
    Cardinality({j \in 1..Len(client.mq.msgs) :
                   client.mq.msgs[j].state = MQTT_QUEUED_UNSENT})

C11_SendAtMostOnce ==
    op = "mqtt_send" => Len(sent) <= 1

\* mqtt_send sent an entry that had timed out, whole, and an entry after
\* it is UNSENT still
C11_Witness ==
    /\ op = "mqtt_send"
    /\ Len(sent) = 1
    /\ sent[1].tmp = Len(sent[1].frame)
    /\ client.number_of_timeouts > 0
    /\ client.mq.msgs[sent[1].entry].time_sent = second_counter
    /\ second_counter > 0
    /\ \E j \in (sent[1].entry + 1)..Len(client.mq.msgs) :
          client.mq.msgs[j].state = MQTT_QUEUED_UNSENT

\* the call of mqtt_send handed the transport the rest of an entry and the
\* transport took it all
SentWhole ==
    /\ op = "mqtt_send"
    /\ Len(sent) = 1
    /\ sent[1].tmp >= 0
    /\ sent[1].offset + sent[1].tmp = Len(sent[1].frame)

\* C12: when mqtt_send has transmitted an entry in full, the entry is in
\* state AWAITING_ACK if its control type is CONNECT, SUBSCRIBE or PINGREQ
\* and COMPLETE if it is PUBLISH or DISCONNECT; for any other control type
\* mqtt_send returns MQTT_ERROR_MALFORMED_REQUEST and client->error holds it
C12_StateAfterFullSend ==
    SentWhole =>
       LET msg == client.mq.msgs[sent[1].entry]
       IN  /\ msg.control_type = sent[1].control_type
           /\ msg.control_type \in {MQTT_CONTROL_CONNECT,
                                    MQTT_CONTROL_SUBSCRIBE,
                                    MQTT_CONTROL_PINGREQ}
                 => msg.state = MQTT_QUEUED_AWAITING_ACK
           /\ msg.control_type \in {MQTT_CONTROL_PUBLISH,
                                    MQTT_CONTROL_DISCONNECT}
                 => msg.state = MQTT_QUEUED_COMPLETE
           /\ msg.control_type \notin {MQTT_CONTROL_CONNECT,
                                       MQTT_CONTROL_SUBSCRIBE,
                                       MQTT_CONTROL_PINGREQ,
                                       MQTT_CONTROL_PUBLISH,
                                       MQTT_CONTROL_DISCONNECT}
                 => /\ rv = MQTT_ERROR_MALFORMED_REQUEST
                    /\ client.error = MQTT_ERROR_MALFORMED_REQUEST

\* mqtt_send sent a PUBLISH frame whole while a SUBSCRIBE sent before it
\* awaits its SUBACK
C12_Witness ==
    /\ SentWhole
    /\ sent[1].control_type = MQTT_CONTROL_PUBLISH
    /\ sent[1].tmp > 0
    /\ client.mq.msgs[sent[1].entry].state = MQTT_QUEUED_COMPLETE
    /\ \E j \in 1..Len(client.mq.msgs) :
          /\ client.mq.msgs[j].control_type = MQTT_CONTROL_SUBSCRIBE
          /\ client.mq.msgs[j].state = MQTT_QUEUED_AWAITING_ACK

\* what mqtt_recv decoded from the scratch region in the call logged as call
Decoded(call) == mqtt_unpack_response(call.buf, call.len)

\* the response is a whole CONNACK, SUBACK or PINGRESP
IsAck(response) ==
    /\ response.rv > 0
    /\ response.fixed_header.control_type
          \in {MQTT_CONTROL_CONNACK, MQTT_CONTROL_SUBACK, MQTT_CONTROL_PINGRESP}

\* the request the response acknowledges
Acknowledged(response) ==
    IF response.fixed_header.control_type = MQTT_CONTROL_CONNACK
    THEN [control_type |-> MQTT_CONTROL_CONNECT, packet_id |-> NoPacketId]
    ELSE IF response.fixed_header.control_type = MQTT_CONTROL_SUBACK
    THEN [control_type |-> MQTT_CONTROL_SUBSCRIBE,
          packet_id |-> response.suback.packet_id]
    ELSE [control_type |-> MQTT_CONTROL_PINGREQ, packet_id |-> NoPacketId]

\* the queue holds an entry for request that is not COMPLETE
Pending(mq, request) ==
    \E i \in 1..Len(mq.msgs) :
       /\ mq.msgs[i].control_type = request.control_type
       /\ mq.msgs[i].state # MQTT_QUEUED_COMPLETE
       /\ request.packet_id # NoPacketId
             => mq.msgs[i].packet_id = request.packet_id

\* the queue holds an entry for request: one that is not COMPLETE for a
\* request without packet id, one in any state for a request with one
Held(mq, request) ==
    \E i \in 1..Len(mq.msgs) :
       /\ mq.msgs[i].control_type = request.control_type
       /\ IF request.packet_id = NoPacketId
          THEN mq.msgs[i].state # MQTT_QUEUED_COMPLETE
          ELSE mq.msgs[i].packet_id = request.packet_id

\* the step is a call of mqtt_recv with a whole CONNACK, SUBACK or PINGRESP
RecvOfAck ==
    /\ op' = "mqtt_recv"
    /\ Len(recv_log') = 1
    /\ IsAck(Decoded(recv_log'[1]))

\* the call reports an acknowledgement of nothing and leaves the queue as
\* it was
UnknownAck ==
    /\ rv' = MQTT_ERROR_ACK_OF_UNKNOWN
    /\ client'.error = MQTT_ERROR_ACK_OF_UNKNOWN
    /\ client'.mq = client.mq

\* C13 as stated: when mqtt_recv is given a CONNACK, SUBACK or PINGRESP and
\* the queue holds no entry that is not COMPLETE for the request it
\* acknowledges (a CONNECT, a SUBSCRIBE with the packet id, a PINGREQ), it
\* returns MQTT_ERROR_ACK_OF_UNKNOWN and changes nothing in the queue
C13_UnknownAckOfPending ==
    [][(RecvOfAck
        /\ ~Pending(client.mq, Acknowledged(Decoded(recv_log'[1]))))
       => UnknownAck]_vars

\* C13: when mqtt_recv is given a CONNACK, SUBACK or PINGRESP and the queue
\* holds no CONNECT that is not COMPLETE, no SUBSCRIBE with the packet id
\* in any state, no PINGREQ that is not COMPLETE, respectively, it returns
\* MQTT_ERROR_ACK_OF_UNKNOWN and changes nothing in the queue
C13_UnknownAckOfHeld ==
    [][(RecvOfAck
        /\ ~Held(client.mq, Acknowledged(Decoded(recv_log'[1]))))
       => UnknownAck]_vars

\* mqtt_recv was given a PINGRESP while the queue held a CONNECT awaiting
\* its CONNACK and no PINGREQ, and reported MQTT_ERROR_ACK_OF_UNKNOWN
C13_Witness ==
    /\ op = "mqtt_recv"
    /\ Len(recv_log) = 1
    /\ Decoded(recv_log[1]).rv > 0
    /\ Decoded(recv_log[1]).fixed_header.control_type = MQTT_CONTROL_PINGRESP
    /\ rv = MQTT_ERROR_ACK_OF_UNKNOWN
    /\ \E i \in 1..Len(client.mq.msgs) :
          /\ client.mq.msgs[i].control_type = MQTT_CONTROL_CONNECT
          /\ client.mq.msgs[i].state = MQTT_QUEUED_AWAITING_ACK
    /\ \A i \in 1..Len(client.mq.msgs) :
          client.mq.msgs[i].control_type # MQTT_CONTROL_PINGREQ

\* the bytes are a whole PUBLISH frame of QoS 0 with a remaining length of
\* one byte and a topic that is not empty
IsPublishFrame(buf) ==
    /\ Len(buf) >= 5
    /\ buf[1] \div 16 = MQTT_CONTROL_PUBLISH
    /\ BitAnd(buf[1], 6) = 0
    /\ buf[2] < 128
    /\ Len(buf) = 2 + buf[2]
    /\ buf[3] * 256 + buf[4] >= 1
    /\ buf[3] * 256 + buf[4] <= buf[2] - 2

\* topic and payload of such a frame
TopicOf(buf) == SubSeq(buf, 5, 4 + buf[3] * 256 + buf[4])
PayloadOf(buf) == SubSeq(buf, 5 + buf[3] * 256 + buf[4], Len(buf))

\* C14: for every whole PUBLISH frame it is given, mqtt_recv calls the
\* callback once, with the topic and the payload of the frame, and leaves
\* the send queue as it was
C14_PublishDelivered ==
    [][(/\ op' = "mqtt_recv"
        /\ Len(recv_log') = 1
        /\ recv_log'[1].len = Len(recv_log'[1].buf)
        /\ IsPublishFrame(recv_log'[1].buf))
       => /\ Len(published') = 1
          /\ published'[1].decoded
          /\ published'[1].topic_name = TopicOf(recv_log'[1].buf)
          /\ published'[1].application_message = PayloadOf(recv_log'[1].buf)
          /\ client'.mq = client.mq]_vars

\* the step is a call of mqtt_recv with a whole frame whose fixed header is
\* legal and whose control type is none of CONNACK, PUBLISH, SUBACK and
\* PINGRESP
RecvOfOtherType ==
    /\ op' = "mqtt_recv"
    /\ Len(recv_log') = 1
    /\ LET call == recv_log'[1]
           fixed_header == mqtt_unpack_fixed_header(call.buf, call.len)
       IN  /\ fixed_header.rv > 0
           /\ call.len = fixed_header.rv + fixed_header.remaining_length
           /\ fixed_header.control_type
                 \notin {MQTT_CONTROL_CONNACK, MQTT_CONTROL_PUBLISH,
                         MQTT_CONTROL_SUBACK, MQTT_CONTROL_PINGRESP}

\* C15 as stated: given a whole frame with a legal control type other than
\* CONNACK, PUBLISH, SUBACK and PINGRESP, mqtt_recv returns
\* MQTT_ERROR_MALFORMED_RESPONSE and client->error holds that value
C15_OtherTypeMalformed ==
    [][RecvOfOtherType
       => /\ rv' = MQTT_ERROR_MALFORMED_RESPONSE
          /\ client'.error = MQTT_ERROR_MALFORMED_RESPONSE]_vars

\* C15: given a whole frame with a legal control type other than CONNACK,
\* PUBLISH, SUBACK and PINGRESP, mqtt_recv returns
\* MQTT_ERROR_RESPONSE_INVALID_CONTROL_TYPE, client->error holds that
\* value, and nothing else of the client changes
C15_OtherTypeInvalid ==
    [][RecvOfOtherType
       => /\ rv' = MQTT_ERROR_RESPONSE_INVALID_CONTROL_TYPE
          /\ client' = [client EXCEPT
                          !.error = MQTT_ERROR_RESPONSE_INVALID_CONTROL_TYPE]
          /\ published' = <<>>]_vars

\* mqtt_recv was given a PUBACK while a CONNECT awaited its CONNACK, and
\* returned the error it stored
C15_Witness ==
    /\ op = "mqtt_recv"
    /\ Len(recv_log) = 1
    /\ recv_log[1].buf = <<64, 2, 0, 1>>
    /\ rv < 0
    /\ client.error = rv
    /\ \E i \in 1..Len(client.mq.msgs) :
          client.mq.msgs[i].state = MQTT_QUEUED_AWAITING_ACK

\* C16: when the transport returns a negative value to mqtt_send, mqtt_send
\* returns that value and client->error holds it, and the entry it was
\* sending, UNSENT or AWAITING_ACK, keeps its state and its time_sent, as
\* every entry of the queue does
C16_TransportErrorKeepsEntry ==
    [][(op' = "mqtt_send" /\ Len(sent') = 1 /\ sent'[1].tmp < 0)
       => /\ rv' = sent'[1].tmp
          /\ client'.error = sent'[1].tmp
          /\ client.mq.msgs[sent'[1].entry].state
                \in {MQTT_QUEUED_UNSENT, MQTT_QUEUED_AWAITING_ACK}
          /\ client'.mq = client.mq]_vars

\* the transport failed when mqtt_send sent an entry again that had timed
\* out in AWAITING_ACK
C16_Witness ==
    /\ op = "mqtt_send"
    /\ Len(sent) = 1
    /\ sent[1].tmp < 0
    /\ rv = sent[1].tmp
    /\ client.number_of_timeouts > 0
    /\ client.mq.msgs[sent[1].entry].state = MQTT_QUEUED_AWAITING_ACK
    /\ second_counter
          > client.mq.msgs[sent[1].entry].time_sent + client.response_timeout

----------------------------------------------------------------------------
(* Registration of a PUBLISH *)

\* mqtt_publish is called with these arguments on a client without a stored
\* error whose queue has a free size of at least the length of the frame
PublishFits(topic_name, application_message) ==
    /\ PublishStep(topic_name, application_message)
    /\ client.error >= 0
    /\ client.mq.curr_sz >= FrameSize(mqtt_pack_publish_request(
           SendBufSize, topic_name, 1, application_message, 0))

\* mq1 is mq with one entry more, of this control type and size, UNSENT,
\* its frame at the curr of mq; the entries of mq and the bytes of their
\* frames are as they were
Registered(mq, mq1, control_type, size) ==
    /\ Len(mq1.msgs) = Len(mq.msgs) + 1
    /\ SubSeq(mq1.msgs, 1, Len(mq.msgs)) = mq.msgs
    /\ SubSeq(mq1.mem, 1, mq.curr) = mq.mem
    /\ mq1.msgs[Len(mq1.msgs)].control_type = control_type
    /\ mq1.msgs[Len(mq1.msgs)].state = MQTT_QUEUED_UNSENT
    /\ mq1.msgs[Len(mq1.msgs)].size = size
    /\ mq1.msgs[Len(mq1.msgs)].start = mq.curr
    /\ mq1.curr = mq.curr + size
    /\ mq1.queue_tail = mq.queue_tail - QueuedMessageSize

\* C23 as stated: mqtt_publish on a client without error whose queue has a
\* free size of at least the length of the encoded frame returns MQTT_OK
\* and registers one entry: PUBLISH, UNSENT, of the size of the frame, at
\* the curr the queue had before the call, curr advanced by that size, the
\* entries the queue had before the call unchanged
C23_PublishRegistersAtPreviousCurr ==
    [][ \A topic_name \in Topics, application_message \in Payloads :
          PublishFits(topic_name, application_message)
          => /\ rv' = MQTT_OK
             /\ Registered(client.mq, client'.mq, MQTT_CONTROL_PUBLISH,
                           FrameSize(mqtt_pack_publish_request(
                               SendBufSize, topic_name, 1,
                               application_message, 0)))
      ]_vars

\* C23 amended: the same of the queue as mqtt_mq_clean, which mqtt_publish
\* calls before it packs, leaves it: the entry is at the curr that
\* mqtt_mq_clean leaves, and the entries that mqtt_mq_clean keeps are
\* unchanged
C23_PublishRegistersAfterClean ==
    [][ \A topic_name \in Topics, application_message \in Payloads :
          PublishFits(topic_name, application_message)
          => /\ rv' = MQTT_OK
             /\ Registered(mqtt_mq_clean(client.mq), client'.mq,
                           MQTT_CONTROL_PUBLISH,
                           FrameSize(mqtt_pack_publish_request(
                               SendBufSize, topic_name, 1,
                               application_message, 0)))
      ]_vars

\* a PUBLISH of 6 bytes was registered behind another entry in a free size
\* of 6 bytes
C23_Witness ==
    /\ op = "mqtt_publish"
    /\ rv = MQTT_OK
    /\ Len(client.mq.msgs) = 2
    /\ client.mq.msgs[1].state # MQTT_QUEUED_COMPLETE
    /\ client.mq.msgs[2].control_type = MQTT_CONTROL_PUBLISH
    /\ client.mq.msgs[2].size = 6
    /\ client.mq.msgs[2].start = client.mq.msgs[1].size
    /\ client.mq.queue_tail - client.mq.curr = 0

----------------------------------------------------------------------------
(* Lifecycle of a queue entry *)

\* entry i, msg before the step, has state1 after it, by a change the
\* lifecycle has: none; or, UNSENT, by the call of mqtt_send that sent the
\* rest of its frame, to AWAITING_ACK for a CONNECT, SUBSCRIBE or
\* PINGREQ and to COMPLETE for a PUBLISH or DISCONNECT; or, AWAITING_ACK, to
\* COMPLETE by a call of mqtt_recv with the acknowledgement of its type
Lifecycle(i, msg, state1) ==
    \/ state1 = msg.state
    \/ /\ msg.state = MQTT_QUEUED_UNSENT
       /\ op' = "mqtt_send"
       /\ Len(sent') = 1
       /\ sent'[1].entry = i
       /\ sent'[1].offset + sent'[1].tmp = Len(sent'[1].frame)
       /\ \/ /\ msg.control_type \in {MQTT_CONTROL_CONNECT,
                                       MQTT_CONTROL_SUBSCRIBE,
                                       MQTT_CONTROL_PINGREQ}
             /\ state1 = MQTT_QUEUED_AWAITING_ACK
          \/ /\ msg.control_type \in {MQTT_CONTROL_PUBLISH,
                                       MQTT_CONTROL_DISCONNECT}
             /\ state1 = MQTT_QUEUED_COMPLETE
    \/ /\ msg.state = MQTT_QUEUED_AWAITING_ACK
       /\ state1 = MQTT_QUEUED_COMPLETE
       /\ RecvOfAck
       /\ Acknowledged(Decoded(recv_log'[1])).control_type = msg.control_type

\* C24: the state of an entry changes only from UNSENT to AWAITING_ACK
\* (CONNECT, SUBSCRIBE, PINGREQ sent in full), from UNSENT to COMPLETE
\* (PUBLISH, DISCONNECT sent in full) and from AWAITING_ACK to COMPLETE
\* (its acknowledgement received): mqtt_send and mqtt_recv keep the
\* entries and change states so only, and an operation that registers an
\* entry, or mqtt_mq_clean, leaves the state of every entry that
\* mqtt_mq_clean keeps.  So no entry that requires an acknowledgement is
\* COMPLETE before it was sent, and no COMPLETE entry becomes UNSENT or
\* AWAITING_ACK
C24_Lifecycle ==
    [][ /\ op' \in {"mqtt_send", "mqtt_recv"}
             => /\ Len(client'.mq.msgs) = Len(client.mq.msgs)
                /\ \A i \in 1..Len(client.mq.msgs) :
                      Lifecycle(i, client.mq.msgs[i],
                                client'.mq.msgs[i].state)
        /\ op' \notin {"mqtt_send", "mqtt_recv", "mqtt_init"}
             => \/ client'.mq.msgs = client.mq.msgs
                \/ \A j \in 1..Len(mqtt_mq_clean(client.mq).msgs) :
                      client'.mq.msgs[j].state
                         = mqtt_mq_clean(client.mq).msgs[j].state
      ]_vars

----------------------------------------------------------------------------
(* Retransmission and order of sending *)

\* the step is a call of mqtt_send
SendCalled ==
    /\ calls' # calls
    /\ op' = "mqtt_send"

\* the step is a call of mqtt_send that handed an entry to the transport
SendOfEntry ==
    /\ SendCalled
    /\ Len(sent') = 1

\* entry msg may be sent now: it is UNSENT, or AWAITING_ACK with more than
\* response_timeout seconds gone since time_sent
Eligible(msg) ==
    \/ msg.state = MQTT_QUEUED_UNSENT
    \/ /\ msg.state = MQTT_QUEUED_AWAITING_ACK
       /\ second_counter > msg.time_sent + client.response_timeout

\* C25: mqtt_send hands an entry in AWAITING_ACK to the transport only when
\* second_counter is greater than its time_sent plus response_timeout; the
\* call then adds one to number_of_timeouts and sends from offset 0, and
\* when the transport takes the whole frame the entry has the second_counter
\* of the call as time_sent and is AWAITING_ACK still
C25_RetransmitOnTimeout ==
    [][ ( /\ SendOfEntry
          /\ client.mq.msgs[sent'[1].entry].state = MQTT_QUEUED_AWAITING_ACK )
        => /\ second_counter
                 > client.mq.msgs[sent'[1].entry].time_sent
                   + client.response_timeout
           /\ client'.number_of_timeouts = client.number_of_timeouts + 1
           /\ sent'[1].offset = 0
           /\ sent'[1].tmp < 0 => client'.send_offset = 0
           /\ sent'[1].tmp = Len(sent'[1].frame)
                 => /\ client'.mq.msgs[sent'[1].entry].time_sent
                          = second_counter
                    /\ client'.mq.msgs[sent'[1].entry].state
                          = MQTT_QUEUED_AWAITING_ACK
                    /\ client'.send_offset = 0
      ]_vars

\* a CONNECT was sent again, whole, 31 seconds after it was sent first
C25_Witness ==
    /\ op = "mqtt_send"
    /\ Len(sent) = 1
    /\ sent[1].control_type = MQTT_CONTROL_CONNECT
    /\ sent[1].offset = 0
    /\ sent[1].tmp = Len(sent[1].frame)
    /\ sent[1].tmp > 0
    /\ client.number_of_timeouts = 1
    /\ client.mq.msgs[sent[1].entry].state = MQTT_QUEUED_AWAITING_ACK
    /\ client.mq.msgs[sent[1].entry].time_sent = second_counter
    /\ second_counter = client.response_timeout + 1

\* C27: the entry mqtt_send hands to the transport is the one registered
\* earliest among the entries that are UNSENT or AWAITING_ACK and timed out
\* (no entry before it in the queue is one), and a call of mqtt_send on a
\* client without stored error hands one to the transport when there is one
C27_SendsEarliestEligible ==
    [][ /\ SendOfEntry
             => /\ Eligible(client.mq.msgs[sent'[1].entry])
                /\ \A j \in 1..(sent'[1].entry - 1) :
                      ~Eligible(client.mq.msgs[j])
        /\ ( /\ SendCalled
              /\ client.error >= 0
              /\ \E j \in 1..Len(client.mq.msgs) :
                    Eligible(client.mq.msgs[j]) )
             => Len(sent') = 1
      ]_vars

\* of two entries UNSENT, a CONNECT and the PINGREQ registered after it,
\* mqtt_send has sent the CONNECT, and the PINGREQ is UNSENT still
C27_Witness ==
    /\ op = "mqtt_send"
    /\ Len(sent) = 1
    /\ sent[1].entry = 1
    /\ sent[1].control_type = MQTT_CONTROL_CONNECT
    /\ sent[1].tmp = Len(sent[1].frame)
    /\ client.number_of_timeouts = 0
    /\ Len(client.mq.msgs) >= 2
    /\ client.mq.msgs[1].state = MQTT_QUEUED_AWAITING_ACK
    /\ client.mq.msgs[2].control_type = MQTT_CONTROL_PINGREQ
    /\ client.mq.msgs[2].state = MQTT_QUEUED_UNSENT

----------------------------------------------------------------------------
(* The keep-alive *)

\* the number of PINGREQ entries that are UNSENT
UnsentPings(msgs) ==
    Cardinality({j \in 1..Len(msgs) :
                   /\ msgs[j].control_type = MQTT_CONTROL_PINGREQ
                   /\ msgs[j].state = MQTT_QUEUED_UNSENT})

PingEnqueued ==
    UnsentPings(client'.mq.msgs) = UnsentPings(client.mq.msgs) + 1

\* the step is a call of mqtt_send that did not return with an error: no
\* error was stored and the transport returned none
SendRanThrough ==
    /\ SendCalled
    /\ client.error >= 0
    /\ Len(sent') = 1 => sent'[1].tmp >= 0

\* the call of mqtt_send sent a frame to its end
SentToEnd ==
    /\ Len(sent') = 1
    /\ sent'[1].offset + sent'[1].tmp = Len(sent'[1].frame)

\* C26: a call of mqtt_send that does not return with an error registers one
\* PINGREQ entry exactly when mqtt_start is MQTT_START_COMPLETE and
\* second_counter is greater than time_of_last_send plus floor(3 *
\* keep_alive / 4), where a frame sent to its end in the call has set
\* time_of_last_send to second_counter before: such a call registers none
C26_KeepAlivePing ==
    [][ SendRanThrough
        => /\ SentToEnd
                => /\ client'.time_of_last_send = second_counter
                   /\ ~PingEnqueued
           /\ ~SentToEnd
                => ( PingEnqueued
                     <=> /\ mqtt_start = MQTT_START_COMPLETE
                         /\ second_counter
                               > client.time_of_last_send
                                 + ((3 * client.keep_alive) \div 4) )
      ]_vars

----------------------------------------------------------------------------
(* A frame the transport takes in parts *)

\* record t of sent tells of a call of the transport that took fewer bytes
\* than the rest of the frame
TakenInPart(t) ==
    /\ t.tmp >= 0
    /\ t.offset + t.tmp < Len(t.frame)

\* the number of entries at the head of the queue that the step removed:
\* mqtt_recv removes none, mqtt_send removes none when it sent a frame whole
\* (no PINGREQ follows), and the other calls remove what mqtt_mq_clean does
\* when they change the queue
Dropped ==
    IF \/ client'.mq.msgs = client.mq.msgs
       \/ op' = "mqtt_recv"
       \/ /\ op' = "mqtt_send"
          /\ Len(sent') = 1
          /\ ~TakenInPart(sent'[1])
          /\ sent'[1].tmp >= 0
    THEN 0
    ELSE Len(client.mq.msgs) - Len(mqtt_mq_clean(client.mq).msgs)

\* the last call was a mqtt_send of which the transport took a part of
\* entry i, which is UNSENT
PartlySent(i) ==
    /\ op = "mqtt_send"
    /\ Len(sent) = 1
    /\ TakenInPart(sent[1])
    /\ i \in 1..Len(client.mq.msgs)
    /\ client.mq.msgs[i].state = MQTT_QUEUED_UNSENT
    /\ FrameOf(client.mq, i) = sent[1].frame
    /\ \A j \in 1..(i - 1) : client.mq.msgs[j].state # MQTT_QUEUED_UNSENT
    /\ client.send_offset = sent[1].offset + sent[1].tmp

\* what C28 says of one step
C28_Step ==
    /\ ( SendOfEntry /\ TakenInPart(sent'[1]) )
         => /\ client'.send_offset = sent'[1].offset + sent'[1].tmp
            /\ client'.mq.msgs[sent'[1].entry - Dropped].state
                  = client.mq.msgs[sent'[1].entry].state
            /\ client'.mq.msgs[sent'[1].entry - Dropped].time_sent
                  = client.mq.msgs[sent'[1].entry].time_sent
    /\ \A i \in 1..Len(client.mq.msgs) :
          PartlySent(i)
            => /\ SendOfEntry
                    => /\ sent'[1].entry = i
                       /\ sent'[1].offset = client.send_offset
                       /\ sent'[1].frame = sent[1].frame
               /\ client'.mq.msgs[i - Dropped].state # MQTT_QUEUED_UNSENT
                    => /\ SendOfEntry
                       /\ sent'[1].entry = i
                       /\ sent'[1].offset + sent'[1].tmp
                             = client.mq.msgs[i].size
                       /\ client'.send_offset = 0

\* C28: when the transport takes fewer bytes than the rest of the frame,
\* mqtt_send leaves state and time_sent of the entry as they were and
\* send_offset is the offset sent from plus the count taken; the next call of
\* mqtt_send that sends, sends the same UNSENT entry from send_offset; and
\* the state of the entry changes only in a call of mqtt_send that brings
\* send_offset to the size of the entry, after which send_offset is 0
C28_PartialSendResumes ==
    [][ C28_Step ]_vars

----------------------------------------------------------------------------
(* Acknowledgements that refuse *)

\* the step is a call of mqtt_recv with frame f in the scratch region
Received(f) ==
    /\ calls' # calls
    /\ op' = "mqtt_recv"
    /\ Len(recv_log') = 1
    /\ recv_log'[1].buf = f

\* entry i is the oldest CONNECT that is not COMPLETE
PendingConnect(i) ==
    /\ i \in 1..Len(client.mq.msgs)
    /\ client.mq.msgs[i].control_type = MQTT_CONTROL_CONNECT
    /\ client.mq.msgs[i].state # MQTT_QUEUED_COMPLETE
    /\ \A j \in 1..(i - 1) :
          \/ client.mq.msgs[j].control_type # MQTT_CONTROL_CONNECT
          \/ client.mq.msgs[j].state = MQTT_QUEUED_COMPLETE

\* the queue after the step is the queue before it with entry i COMPLETE
OnlyCompleted(i) ==
    client'.mq = [client.mq EXCEPT !.msgs[i].state = MQTT_QUEUED_COMPLETE]

\* C29: when mqtt_recv is given a CONNACK whose return code is one of the
\* refusals 1 to 5 while a CONNECT is not COMPLETE, it marks the oldest such
\* CONNECT COMPLETE, leaves the rest of the queue as it is, and returns and
\* stores MQTT_ERROR_CONNECT_CLIENT_ID_REFUSED when the code is
\* MQTT_CONNACK_REFUSED_IDENTIFIER_REJECTED and MQTT_ERROR_CONNECTION_REFUSED
\* for the other codes
C29_RefusedConnack ==
    [][ \A code \in 1..5, i \in 1..Len(client.mq.msgs) :
          ( /\ Received(<<MQTT_CONTROL_CONNACK * 16, 2, 0, code>>)
            /\ PendingConnect(i) )
          => /\ OnlyCompleted(i)
             /\ rv' = IF code = MQTT_CONNACK_REFUSED_IDENTIFIER_REJECTED
                      THEN MQTT_ERROR_CONNECT_CLIENT_ID_REFUSED
                      ELSE MQTT_ERROR_CONNECTION_REFUSED
             /\ client'.error = rv'
      ]_vars

\* a CONNACK that rejects the identifier has completed the CONNECT, which
\* was sent at second 31, and the error is stored
C29_Witness ==
    /\ op = "mqtt_recv"
    /\ Len(recv_log) = 1
    /\ recv_log[1].buf
         = <<MQTT_CONTROL_CONNACK * 16, 2, 0,
             MQTT_CONNACK_REFUSED_IDENTIFIER_REJECTED>>
    /\ rv = MQTT_ERROR_CONNECT_CLIENT_ID_REFUSED
    /\ client.error = MQTT_ERROR_CONNECT_CLIENT_ID_REFUSED
    /\ Len(client.mq.msgs) = 1
    /\ client.mq.msgs[1].control_type = MQTT_CONTROL_CONNECT
    /\ client.mq.msgs[1].state = MQTT_QUEUED_COMPLETE
    /\ client.time_of_last_send = second_counter
    /\ second_counter > 0
    /\ connack_received = 1

\* C30: when mqtt_recv is given a SUBACK with packet id X and one return
\* code while the queue holds a SUBSCRIBE entry with packet id X, the queue
\* after the call is the queue before it with one entry COMPLETE, a
\* SUBSCRIBE with packet id X: a SUBSCRIBE with another id and an entry of
\* another type with id X are as they were; the call returns and stores
\* MQTT_ERROR_SUBSCRIBE_FAILED when the return code is MQTT_SUBACK_FAILURE
\* and returns MQTT_OK otherwise
C30_SubackCompletesItsSubscribe ==
    [][ \A X \in PidValues(163, MaxPids), code \in {0, MQTT_SUBACK_FAILURE} :
          ( /\ Received(<<MQTT_CONTROL_SUBACK * 16, 3, X \div 256, X % 256,
                          code>>)
            /\ \E i \in 1..Len(client.mq.msgs) :
                  /\ client.mq.msgs[i].control_type = MQTT_CONTROL_SUBSCRIBE
                  /\ client.mq.msgs[i].packet_id = X )
          => /\ \E i \in 1..Len(client.mq.msgs) :
                   /\ client.mq.msgs[i].control_type = MQTT_CONTROL_SUBSCRIBE
                   /\ client.mq.msgs[i].packet_id = X
                   /\ OnlyCompleted(i)
             /\ code = MQTT_SUBACK_FAILURE
                   => /\ rv' = MQTT_ERROR_SUBSCRIBE_FAILED
                      /\ client'.error = MQTT_ERROR_SUBSCRIBE_FAILED
             /\ code # MQTT_SUBACK_FAILURE => rv' = MQTT_OK
      ]_vars

\* a SUBACK that reports failure has completed the SUBSCRIBE with its packet
\* id; the SUBSCRIBE with another id is UNSENT still, and so is an entry of
\* another type that holds the packet id of the SUBACK
C30_Witness ==
    /\ op = "mqtt_recv"
    /\ rv = MQTT_ERROR_SUBSCRIBE_FAILED
    /\ Len(recv_log) = 1
    /\ recv_log[1].buf[1] = MQTT_CONTROL_SUBACK * 16
    /\ \E i, j, k \in 1..Len(client.mq.msgs) :
          /\ client.mq.msgs[i].control_type = MQTT_CONTROL_SUBSCRIBE
          /\ client.mq.msgs[i].packet_id = mqtt_unpack_uint16(recv_log[1].buf, 2)
          /\ client.mq.msgs[i].state = MQTT_QUEUED_COMPLETE
          /\ client.mq.msgs[j].control_type = MQTT_CONTROL_SUBSCRIBE
          /\ client.mq.msgs[j].packet_id # client.mq.msgs[i].packet_id
          /\ client.mq.msgs[j].state = MQTT_QUEUED_UNSENT
          /\ client.mq.msgs[k].control_type # MQTT_CONTROL_SUBSCRIBE
          /\ client.mq.msgs[k].packet_id = client.mq.msgs[i].packet_id
          /\ client.mq.msgs[k].state = MQTT_QUEUED_UNSENT

----------------------------------------------------------------------------
(* The codec on its own: a pack function builds a frame in a buffer of     *)
(* bufsz bytes, and the unpack function for the frame reads the buffer.    *)

\* the largest bufsz: the parameter is a uint16_t
MaxBufSz == 65535

MaxTopicLen == 2
MaxPayloadLen == 2

\* bytes of the buffers that mqtt_unpack_fixed_header is applied to as
\* they are
MaxRawLen == 6

\* the arguments: a fixed header of any control type and flags of four
\* bits each, with a remaining length at an end of the ranges of one to
\* five length bytes or where 15 and 16 bits end, in a buffer that holds
\* header and body if a buffer can, and that holds a header of the type
\* and the flags with no body before; or a topic, a payload and flags of
\* QoS 0; or a buffer of MaxRawLen bytes, a PUBLISH or a PINGRESP with
\* length bytes of 1, 128 or 255, of which bufsz bytes are to be unpacked
InitCodec ==
    /\ Is(Boot)
    /\ op = "mqtt_init"
    /\ link = Link("")
    /\ calls = 0
    /\ \/ \E control_type \in 0..15, control_flags \in 0..15,
             remaining_length \in {0, 1, 127, 128, 16383, 16384, 32767,
                                   32768, 65530, 65536, 2097151, 2097152,
                                   268435455, 268435456, 536870912},
             shift \in {"sign", "zero"} :
             codec = [Codec("mqtt_pack_fixed_header") EXCEPT
                        !.fixed_header =
                            [control_type |-> control_type,
                             control_flags |-> control_flags,
                             remaining_length |-> remaining_length],
                        !.bufsz = Min(MaxBufSz, 5 + remaining_length),
                        !.buf = <<control_type * 16 + control_flags, 0>>,
                        !.shift = shift]
       \/ \E n \in 1..MaxTopicLen, m \in 0..MaxPayloadLen,
             publish_flags \in {0, MQTT_PUBLISH_RETAIN, MQTT_PUBLISH_DUP,
                                MQTT_PUBLISH_DUP + MQTT_PUBLISH_RETAIN} :
             codec = [Codec("mqtt_pack_publish_request") EXCEPT
                        !.topic_name = [i \in 1..n |-> 115 + i],
                        !.application_message = SubSeq([i \in 1..(m + 1) |-> 48 + i], 1, m),
                        !.publish_flags = publish_flags,
                        !.bufsz = MaxBufSz]
       \/ \E first \in {48, 208}, bytes \in [1..(MaxRawLen - 1) -> {1, 128, 255}],
             bufsz \in 0..MaxRawLen, shift \in {"sign", "zero"} :
             codec = [Codec("mqtt_unpack_fixed_header") EXCEPT
                        !.fixed_header =
                            [control_type |-> first \div 16,
                             control_flags |-> first % 16,
                             remaining_length |-> 0],
                        !.bufsz = bufsz,
                        !.buf = <<first>> \o bytes,
                        !.shift = shift]

PackFixedHeader ==
    /\ codec.fn = "mqtt_pack_fixed_header"
    /\ codec.step = ""
    /\ codec' = [codec EXCEPT
                   !.step = "mqtt_pack_fixed_header",
                   !.packed = mqtt_pack_fixed_header(codec.bufsz,
                                                     codec.fixed_header)]
    /\ Becomes(W)
    /\ UNCHANGED <<op, link, calls>>

\* the buffer holds what mqtt_pack_fixed_header wrote, and past that what
\* it held before
UnpackFixedHeader ==
    /\ \/ codec.step = "mqtt_pack_fixed_header"
       \/ codec.fn = "mqtt_unpack_fixed_header" /\ codec.step = ""
    /\ codec' = [codec EXCEPT
                   !.step = "mqtt_unpack_fixed_header",
                   !.header = mqtt_unpack_fixed_header_on(
                                  codec.packed.bytes
                                     \o SubSeq(codec.buf,
                                               Len(codec.packed.bytes) + 1,
                                               Len(codec.buf)),
                                  codec.bufsz, codec.shift)]
    /\ Becomes(W)
    /\ UNCHANGED <<op, link, calls>>

PackPublish ==
    /\ codec.fn = "mqtt_pack_publish_request"
    /\ codec.step = ""
    /\ codec' = [codec EXCEPT
                   !.step = "mqtt_pack_publish_request",
                   !.packed = mqtt_pack_publish_request(
                                  codec.bufsz, codec.topic_name, 0,
                                  codec.application_message,
                                  codec.publish_flags)]
    /\ Becomes(W)
    /\ UNCHANGED <<op, link, calls>>

\* the buffer holds the frame that mqtt_pack_publish_request built
UnpackResponse ==
    /\ codec.step = "mqtt_pack_publish_request"
    /\ codec' = [codec EXCEPT
                   !.step = "mqtt_unpack_response",
                   !.response = mqtt_unpack_response(codec.packed.bytes,
                                                     codec.packed.rv)]
    /\ Becomes(W)
    /\ UNCHANGED <<op, link, calls>>

NextCodec ==
    PackFixedHeader \/ UnpackFixedHeader \/ PackPublish \/ UnpackResponse

SpecCodec == InitCodec /\ [][NextCodec]_vars

\* the buffer is large enough for the header and the body it declares
BodyPresent == 5 + codec.fixed_header.remaining_length <= codec.bufsz

\* the fixed header to pack has a legal control type and flags valid for
\* the type (for a PUBLISH any flags of QoS 0, 1 or 2)
LegalTypeAndFlags ==
    /\ codec.fn = "mqtt_pack_fixed_header"
    /\ codec.fixed_header.control_type \in 1..14
    /\ codec.fixed_header.control_flags \in
          IF codec.fixed_header.control_type = MQTT_CONTROL_PUBLISH
          THEN {f \in 0..15 : BitAnd(f, 6) # 6}
          ELSE {required_flags[codec.fixed_header.control_type + 1]}

\* and a remaining length of at most 2^28 - 1
LegalHeader ==
    /\ LegalTypeAndFlags
    /\ codec.fixed_header.remaining_length <= 268435455

\* C18: for every legal control type, flags valid for it and remaining
\* length from 0 to 2^28 - 1, mqtt_unpack_fixed_header applied to the
\* bytes that mqtt_pack_fixed_header wrote, the buffer holding the body
\* declared, yields the control type, the flags and the remaining length
\* that were packed, and returns the number of header bytes that
\* mqtt_pack_fixed_header returned
C18_FixedHeaderRoundTrip ==
    (codec.step = "mqtt_unpack_fixed_header" /\ LegalHeader /\ BodyPresent)
    => /\ codec.packed.rv > 0
       /\ codec.header.rv = codec.packed.rv
       /\ codec.header.control_type = codec.fixed_header.control_type
       /\ codec.header.control_flags = codec.fixed_header.control_flags
       /\ codec.header.remaining_length = codec.fixed_header.remaining_length

\* C19: for every topic that is not empty, every payload, the empty one
\* too, and every combination of flags of QoS 0, mqtt_unpack_response
\* accepts the frame that mqtt_pack_publish_request built and yields the
\* topic and the payload, bytes and lengths, and the retain and QoS flags
C19_PublishRoundTrip ==
    codec.step = "mqtt_unpack_response"
    => /\ codec.packed.rv > 0
       /\ codec.response.rv = codec.packed.rv
       /\ codec.response.fixed_header.control_type = MQTT_CONTROL_PUBLISH
       /\ codec.response.publish.topic_name = codec.topic_name
       /\ codec.response.publish.application_message
             = codec.application_message
       /\ codec.response.publish.application_message_size
             = Len(codec.application_message)
       /\ codec.response.publish.retain_flag
             = BitAnd(codec.publish_flags, MQTT_PUBLISH_RETAIN)
       /\ codec.response.publish.qos_level = 0

\* the number of length bytes of the 7-bit continuation scheme
LengthBytes(remaining_length) ==
    IF remaining_length <= 127 THEN 1
    ELSE IF remaining_length <= 16383 THEN 2
    ELSE IF remaining_length <= 2097151 THEN 3
    ELSE 4

\* C20: mqtt_pack_fixed_header writes the remaining length after the first
\* byte in 1 byte for 0..127, 2 for 128..16383, 3 for 16384..2097151 and 4
\* for 2097152..2^28 - 1, seven bits in each from the lowest on, with the
\* continuation bit set in every length byte but the last; it returns the
\* number of bytes of this header when the buffer holds header and body
C20_MinimalLengthBytes ==
    (LegalHeader /\ codec.step # "")
    => LET remaining_length == codec.fixed_header.remaining_length
           n == LengthBytes(remaining_length)
           bytes == codec.packed.bytes
       IN  /\ Len(bytes) = 1 + n
           /\ \A i \in 1..n :
                 /\ bytes[1 + i] % 128
                       = (remaining_length \div Pow2(7 * (i - 1))) % 128
                 /\ bytes[1 + i] >= 128 <=> i < n
           /\ codec.packed.rv = IF BodyPresent THEN 1 + n ELSE 0

\* a remaining length of 2097152 was packed in four length bytes
C20_Witness ==
    /\ codec.step = "mqtt_pack_fixed_header"
    /\ codec.fixed_header.remaining_length = 2097152
    /\ codec.fixed_header.control_type = MQTT_CONTROL_PUBLISH
    /\ SubSeq(codec.packed.bytes, 2, 5) = <<128, 128, 128, 1>>

\* C21: for a remaining length above 2^28 - 1, which would take a fifth
\* length byte, mqtt_pack_fixed_header returns
\* MQTT_ERROR_INVALID_REMAINING_LENGTH and has written no fifth length
\* byte (the header being of a legal type with valid flags)
C21_PackRejectsFifthLengthByte ==
    ( /\ LegalTypeAndFlags
      /\ codec.step # ""
      /\ codec.fixed_header.remaining_length > 268435455 )
    => /\ codec.packed.rv = MQTT_ERROR_INVALID_REMAINING_LENGTH
       /\ Len(codec.packed.bytes) <= 5

\* the flags differ from the required value of the type on a bit of the
\* mask of the type
FlagsDiffer(control_type, control_flags) ==
    BitAnd(BitXor(control_flags, required_flags[control_type + 1]),
           mask_required_flags[control_type + 1]) # 0

\* what C22 asks of the value that a function returned for the header
\* of this control type and these flags
Validated(control_type, control_flags, returned) ==
    /\ control_type \in {0, 15} => returned = MQTT_ERROR_CONTROL_FORBIDDEN_TYPE
    /\ (control_type \in 1..14 /\ FlagsDiffer(control_type, control_flags))
          => returned = MQTT_ERROR_CONTROL_INVALID_FLAGS
    /\ control_type = MQTT_CONTROL_PUBLISH
          => returned # MQTT_ERROR_CONTROL_INVALID_FLAGS

\* C22: mqtt_pack_fixed_header and mqtt_unpack_fixed_header return
\* MQTT_ERROR_CONTROL_INVALID_FLAGS for every header of a legal type whose
\* flags differ from the required value of the type on a bit of its mask,
\* MQTT_ERROR_CONTROL_FORBIDDEN_TYPE for the types 0 and 15, and never
\* MQTT_ERROR_CONTROL_INVALID_FLAGS for a PUBLISH
C22_HeaderValidation ==
    /\ (codec.fn = "mqtt_pack_fixed_header" /\ codec.step # "")
          => Validated(codec.fixed_header.control_type,
                       codec.fixed_header.control_flags, codec.packed.rv)
    /\ codec.step = "mqtt_unpack_fixed_header"
          => Validated(codec.fixed_header.control_type,
                       codec.fixed_header.control_flags, codec.header.rv)

\* the buffer with every byte from C index n on replaced by another byte
Beyond(buf, n) ==
    [i \in 1..Len(buf) |-> IF i <= n THEN buf[i] ELSE 255 - buf[i]]

\* C36: mqtt_unpack_fixed_header reads no byte past bufsz and no length
\* byte past the fourth (what it yields does not depend on these bytes);
\* it returns MQTT_ERROR_INVALID_REMAINING_LENGTH when the first four
\* length bytes all have the continuation bit set, and 0 when the input
\* ends inside the length field
C36_UnpackStaysInBounds ==
    (codec.fn = "mqtt_unpack_fixed_header" /\ codec.step # "")
    => LET buf == codec.buf
           bufsz == codec.bufsz
       IN  /\ codec.header
                 = mqtt_unpack_fixed_header_on(Beyond(buf, Min(bufsz, 5)),
                                               bufsz, codec.shift)
           /\ (bufsz >= 5 /\ \A i \in 2..5 : buf[i] >= 128)
                 => codec.header.rv = MQTT_ERROR_INVALID_REMAINING_LENGTH
           /\ (bufsz \in 1..4 /\ \A i \in 2..bufsz : buf[i] >= 128)
                 => codec.header.rv = 0

\* a buffer of five bytes with four length bytes that all have the
\* continuation bit set was unpacked, and one of three bytes that ends
\* after two such length bytes
C36_Witness ==
    /\ codec.fn = "mqtt_unpack_fixed_header"
    /\ codec.step = "mqtt_unpack_fixed_header"
    /\ \/ /\ codec.bufsz = 5
          /\ SubSeq(codec.buf, 2, 5) = <<128, 255, 128, 255>>
          /\ codec.header.rv = MQTT_ERROR_INVALID_REMAINING_LENGTH
       \/ /\ codec.bufsz = 3
          /\ SubSeq(codec.buf, 2, 3) = <<255, 128>>
          /\ codec.buf[4] = 1
          /\ codec.header.rv = 0

====
